---------------------------- MODULE Spec2Model ----------------------------
(***************************************************************************)
(* Model of onion-ai's SignatureEngine (src/src/layers/signature.ts):      *)
(* HMAC signing, AES-256-GCM encrypted zero-width watermark frames, their  *)
(* extraction and stripping.                                               *)
(*                                                                         *)
(* A JavaScript string is a sequence of UTF-16 code units (naturals).  A   *)
(* Buffer is a sequence of bytes (0..255).  A binary string ("0101...") is *)
(* a sequence of the digits 0 and 1.                                       *)
(***************************************************************************)
EXTENDS Integers, Sequences, FiniteSets, Bags, TLC

(***************************************************************************)
(* Code units used by the engine and by the inputs of the model.           *)
(***************************************************************************)
ZW_ZERO == 8203
ZW_ONE == 8204
HEADER == 8205

COLON == 58

\* width of one encoded character: padStart(8, '0'), i += 8 (signature.ts:208, 215)
BYTE_BITS == 8

\* decodeBits returns null (signature.ts:170); no string holds the unit -1.
Null == << -1 >>

Undefined == "undefined"

(***************************************************************************)
(* Generic sequence helpers.                                               *)
(***************************************************************************)
Min(a, b) == IF a < b THEN a ELSE b
Max(a, b) == IF a > b THEN a ELSE b

\* s.slice(from) / s.slice(0, to) on 1-based sequences
Slice(s, lo, hi) == IF lo > hi THEN << >> ELSE SubSeq(s, lo, hi)

\* sum of the elements of a sequence of naturals
Sum(s) == BagCardinality([i \in {j \in DOMAIN s : s[j] > 0} |-> s[i]])

\* sum of i * s[i]
WSum(s) == BagCardinality([i \in {j \in DOMAIN s : s[j] > 0} |-> i * s[i]])

RECURSIVE ConcatRange(_, _, _)
ConcatRange(ss, lo, hi) ==
    IF lo > hi THEN << >>
    ELSE IF lo = hi THEN ss[lo]
    ELSE LET mid == (lo + hi) \div 2
         IN ConcatRange(ss, lo, mid) \o ConcatRange(ss, mid + 1, hi)

\* Array.prototype.join('') of a sequence of strings
Concat(ss) == ConcatRange(ss, 1, Len(ss))

\* positions of unit c in s, and the last of them (0 when absent: lastIndexOf = -1)
Positions(s, c) == {i \in DOMAIN s : s[i] = c}

\* a search from the front: indexOf in place of lastIndexOf
FirstIndexOf(s, c) ==
    LET ps == Positions(s, c)
    IN IF ps = {} THEN 0 ELSE CHOOSE i \in ps : \A j \in ps : i <= j

LastIndexOf(s, c) ==
    LET ps == Positions(s, c)
    IN IF ps = {} THEN 0 ELSE CHOOSE i \in ps : \A j \in ps : j <= i

\* String.prototype.split(sep) for a one-unit separator: the sequence of parts
Split(s, sep) ==
    LET ps == Positions(s, sep)
        n == Cardinality(ps)
        \* cut(k): position of the k-th separator; cut(0) = 0, cut(n+1) = Len+1
        cut(k) == IF k = 0 THEN 0
                  ELSE IF k = n + 1 THEN Len(s) + 1
                  ELSE CHOOSE p \in ps : Cardinality({q \in ps : q <= p}) = k
    IN [k \in 1..(n + 1) |-> Slice(s, cut(k - 1) + 1, cut(k) - 1)]

(***************************************************************************)
(* Hex and UTF-8 conversions of Node's Buffer.                             *)
(***************************************************************************)
\* one lower-case hex digit of a nibble (Buffer.toString('hex'))
HexDigit(n) == IF n < 10 THEN 48 + n ELSE 87 + n

\* value of a hex digit, -1 when the unit is no hex digit; both cases are digits
Unhex(c) ==
    IF c >= 48 /\ c <= 57 THEN c - 48
    ELSE IF c >= 97 /\ c <= 102 THEN c - 87
    ELSE IF c >= 65 /\ c <= 70 THEN c - 55
    ELSE -1

ToHex(bytes) ==
    [i \in 1..(2 * Len(bytes)) |->
        LET b == bytes[(i + 1) \div 2]
        IN IF i % 2 = 1 THEN HexDigit(b \div 16) ELSE HexDigit(b % 16)]

\* Buffer.from(str, 'hex'): whole pairs of hex digits up to the first unit that
\* is none; a trailing odd digit is dropped
FromHex(str) ==
    LET pairs == Len(str) \div 2
        okPair(k) == Unhex(str[2 * k - 1]) >= 0 /\ Unhex(str[2 * k]) >= 0
        bad == {k \in 1..pairs : ~okPair(k)}
        n == IF bad = {} THEN pairs
             ELSE (CHOOSE k \in bad : \A j \in bad : k <= j) - 1
    IN [k \in 1..n |-> 16 * Unhex(str[2 * k - 1]) + Unhex(str[2 * k])]

IsHighSurrogate(c) == c >= 55296 /\ c <= 56319
IsLowSurrogate(c) == c >= 56320 /\ c <= 57343

\* the UTF-8 bytes contributed by unit i of s; an unpaired surrogate is
\* encoded as U+FFFD, a pair as the four bytes of its code point
Utf8Unit(s, i) ==
    LET c == s[i]
        enc3(x) == << 224 + (x \div 4096), 128 + ((x \div 64) % 64), 128 + (x % 64) >>
    IN IF c < 128 THEN << c >>
       ELSE IF c < 2048 THEN << 192 + (c \div 64), 128 + (c % 64) >>
       ELSE IF IsHighSurrogate(c) THEN
            IF i < Len(s) /\ IsLowSurrogate(s[i + 1])
            THEN LET cp == 65536 + (c - 55296) * 1024 + (s[i + 1] - 56320)
                 IN << 240 + (cp \div 262144), 128 + ((cp \div 4096) % 64),
                       128 + ((cp \div 64) % 64), 128 + (cp % 64) >>
            ELSE enc3(65533)
       ELSE IF IsLowSurrogate(c) THEN
            IF i > 1 /\ IsHighSurrogate(s[i - 1])
            THEN << >>
            ELSE enc3(65533)
       ELSE enc3(c)

\* Buffer.from(str) / update(str): the UTF-8 encoding of a string
Utf8(s) == Concat([i \in 1..Len(s) |-> Utf8Unit(s, i)])

\* Buffer.toString('utf8') of bytes: ASCII bytes are themselves, every other
\* byte is shown as U+FFFD (the model decrypts only ASCII JSON text)
Utf8Decode(bytes) == [i \in 1..Len(bytes) |-> IF bytes[i] < 128 THEN bytes[i] ELSE 65533]

(***************************************************************************)
(* Binary helpers (signature.ts:206-220) and the bit layer (154-173).      *)
(***************************************************************************)
\* Number.prototype.toString(2): the binary digits of n, most significant first
RECURSIVE ToString2(_)
ToString2(n) == IF n < 2 THEN << n >> ELSE Append(ToString2(n \div 2), n % 2)

\* String.prototype.padStart(width, '0') of a digit string
PadStart(ds, width) ==
    IF Len(ds) >= width THEN ds ELSE [i \in 1..(width - Len(ds)) |-> 0] \o ds

\* parseInt(byte, 2) of a digit string
RECURSIVE ParseInt2(_)
ParseInt2(ds) ==
    IF ds = << >> THEN 0 ELSE 2 * ParseInt2(SubSeq(ds, 1, Len(ds) - 1)) + ds[Len(ds)]

\* no padStart: a character gives as many digits as its code needs
strToBinNoPad(text) == Concat([i \in 1..Len(text) |-> ToString2(text[i])])

strToBin(text) == Concat([i \in 1..Len(text) |-> PadStart(ToString2(text[i]), BYTE_BITS)])

\* no test of the length: the last, incomplete byte is dropped
binToStrFloor(binary) ==
    [k \in 1..(Len(binary) \div BYTE_BITS) |->
        ParseInt2(SubSeq(binary, BYTE_BITS * (k - 1) + 1, BYTE_BITS * k))]

binToStr(binary) ==
    IF Len(binary) % BYTE_BITS # 0 THEN << >>
    ELSE [k \in 1..(Len(binary) \div BYTE_BITS) |->
            ParseInt2(SubSeq(binary, BYTE_BITS * (k - 1) + 1, BYTE_BITS * k))]

\* the two bit code points read the other way round
decodeBitsSwapped(zwString) ==
    IF \E i \in DOMAIN zwString : zwString[i] # ZW_ONE /\ zwString[i] # ZW_ZERO
    THEN Null
    ELSE binToStr([i \in 1..Len(zwString) |-> IF zwString[i] = ZW_ZERO THEN 1 ELSE 0])

\* foreign characters are skipped instead of ending the decoding
decodeBitsSkipNoise(zwString) ==
    LET bits == SelectSeq(zwString, LAMBDA c : c = ZW_ONE \/ c = ZW_ZERO)
    IN binToStr([i \in 1..Len(bits) |-> IF bits[i] = ZW_ONE THEN 1 ELSE 0])

decodeBits(zwString) ==
    IF \E i \in DOMAIN zwString : zwString[i] # ZW_ONE /\ zwString[i] # ZW_ZERO
    THEN Null
    ELSE binToStr([i \in 1..Len(zwString) |-> IF zwString[i] = ZW_ONE THEN 1 ELSE 0])

\* the frame of an encrypted block: the marker, then one unit per bit
embedBlock(encrypted) ==
    LET bitString == strToBin(encrypted)
    IN << HEADER >> \o [i \in 1..Len(bitString) |-> IF bitString[i] = 1 THEN ZW_ONE ELSE ZW_ZERO]

(***************************************************************************)
(* JSON.  An object is the sequence of its members [k, v] in property      *)
(* order; keys are strings of lower-case letters, values are naturals.     *)
(***************************************************************************)
KEY_T == << 116 >>   \* "t"
KEY_U == << 117 >>   \* "u"

HasKey(obj, key) == \E i \in DOMAIN obj : obj[i].k = key

\* obj[key] of an object that has the key
Get(obj, key) == obj[CHOOSE i \in DOMAIN obj : obj[i].k = key].v

\* { t: timestamp, ...payload }: a t of the caller survives
WithTimestampCallerWins(payload, timestamp) ==
    IF HasKey(payload, KEY_T) THEN payload
    ELSE Append(payload, [k |-> KEY_T, v |-> timestamp])

\* { ...payload, t: timestamp }: t keeps its place when payload has one
WithTimestamp(payload, timestamp) ==
    IF HasKey(payload, KEY_T)
    THEN [i \in DOMAIN payload |->
            IF payload[i].k = KEY_T THEN [k |-> KEY_T, v |-> timestamp] ELSE payload[i]]
    ELSE Append(payload, [k |-> KEY_T, v |-> timestamp])

RECURSIVE Digits(_)
Digits(n) == IF n < 10 THEN << 48 + n >> ELSE Append(Digits(n \div 10), 48 + (n % 10))

RECURSIVE ParseDigits(_)
ParseDigits(ds) ==
    IF ds = << >> THEN 0
    ELSE 10 * ParseDigits(SubSeq(ds, 1, Len(ds) - 1)) + (ds[Len(ds)] - 48)

RECURSIVE JoinComma(_, _)
JoinComma(ss, n) ==
    IF n = 0 THEN << >>
    ELSE IF n = 1 THEN ss[1]
    ELSE JoinComma(ss, n - 1) \o << 44 >> \o ss[n]

\* JSON.stringify of an object
JsonStringify(obj) ==
    LET member(m) == << 34 >> \o m.k \o << 34, COLON >> \o Digits(m.v)
    IN << 123 >> \o JoinComma([i \in DOMAIN obj |-> member(obj[i])], Len(obj)) \o << 125 >>

IsJsonNumber(ds) ==
    /\ Len(ds) >= 1
    /\ \A i \in DOMAIN ds : ds[i] >= 48 /\ ds[i] <= 57
    /\ (Len(ds) > 1 => ds[1] # 48)

IsJsonKey(ks) ==
    /\ Len(ks) >= 2
    /\ ks[1] = 34 /\ ks[Len(ks)] = 34
    /\ \A i \in 2..(Len(ks) - 1) : ks[i] >= 97 /\ ks[i] <= 122

\* JSON.parse, for texts of the shape JsonStringify writes: [threw, value]
JsonParse(text) ==
    LET inner == Slice(text, 2, Len(text) - 1)
        members == Split(inner, 44)
        halves(i) == Split(members[i], COLON)
        okMember(i) == /\ Len(halves(i)) = 2
                       /\ IsJsonKey(halves(i)[1])
                       /\ IsJsonNumber(halves(i)[2])
        key(i) == Slice(halves(i)[1], 2, Len(halves(i)[1]) - 1)
        \* a repeated key keeps its first place and its last value
        first == {i \in DOMAIN members : \A j \in 1..(i - 1) : key(j) # key(i)}
        lastOf(i) == CHOOSE j \in DOMAIN members :
                        key(j) = key(i) /\ \A h \in DOMAIN members : key(h) = key(i) => h <= j
        nth(n) == CHOOSE i \in first : Cardinality({j \in first : j <= i}) = n
    IN IF Len(text) < 2 \/ text[1] # 123 \/ text[Len(text)] # 125
       THEN [threw |-> TRUE]
       ELSE IF inner = << >> THEN [threw |-> FALSE, value |-> << >>]
       ELSE IF \E i \in DOMAIN members : ~okMember(i) THEN [threw |-> TRUE]
       ELSE [threw |-> FALSE,
             value |-> [n \in 1..Cardinality(first) |->
                          [k |-> key(nth(n)), v |-> ParseDigits(halves(lastOf(nth(n)))[2])]]]

(***************************************************************************)
(* Node's crypto, as ideal primitives on the model's inputs.  A digest is  *)
(* a polynomial checksum of the whole message: byte j of it changes with   *)
(* any change of one byte or of the length of the message (for all but at  *)
(* most one j).  AES-256-GCM is counter-mode encryption with a 16-byte tag *)
(* over key, IV and ciphertext.                                            *)
(***************************************************************************)
IV_BYTES == 12
KEY_BYTES == 32
TAG_BYTES == 16
HMAC_BYTES == 32
MIN_SECRET == 32

\* the tag lengths setAuthTag accepts for GCM when no authTagLength is given
GcmTagLengths == {4, 8, 12, 13, 14, 15, 16}

Digest(msg, n) ==
    LET l == Len(msg) % 251
        a == Sum(msg) % 251
        b == WSum(msg) % 251
    IN [j \in 1..n |-> (a + j * b + j * j * l + j) % 251]

\* createHmac('sha256', secret).update(text).digest('hex'): 64 hex digits
generateHMAC(secret, text) ==
    LET key == Utf8(secret)
    IN ToHex(Digest(<< Len(key) % 256 >> \o key \o Utf8(text), HMAC_BYTES))

\* the GCM key stream byte i under a key and an IV
KeyStream(key, iv, i) == (Sum(key) + 3 * Sum(iv) + WSum(iv) + 7 * i) % 256

GcmCipher(key, iv, plain) ==
    [i \in 1..Len(plain) |-> (plain[i] + KeyStream(key, iv, i)) % 256]

GcmDecipher(key, iv, cipher) ==
    [i \in 1..Len(cipher) |-> (cipher[i] + 256 - KeyStream(key, iv, i)) % 256]

GcmTag(key, iv, cipher) == Digest(key \o << Len(iv) % 256 >> \o iv \o cipher, TAG_BYTES)

\* a key made of the first 16 characters only, repeated
AesKeyHalf(secret) ==
    Utf8(Slice(secret, 1, Min(Len(secret), 16))) \o Utf8(Slice(secret, 1, Min(Len(secret), 16)))

\* Buffer.from(this.secret.slice(0, 32)): the AES key of a secret
AesKey(secret) == Utf8(Slice(secret, 1, Min(Len(secret), KEY_BYTES)))

\* encrypt with one IV kept for all calls in place of the one drawn
encryptFixedIV(secret, iv, text) ==
    LET key == AesKey(secret)
        kept == [i \in 1..Len(iv) |-> (83 + i * 29) % 256]
        encrypted == GcmCipher(key, kept, Utf8(text))
        authTag == GcmTag(key, kept, encrypted)
    IN IF Len(key) # KEY_BYTES THEN [threw |-> TRUE]
       ELSE [threw |-> FALSE,
             value |-> ToHex(kept) \o << COLON >> \o ToHex(authTag) \o << COLON >> \o ToHex(encrypted)]

\* encrypt(text) with the IV randomBytes(12) returned: [threw, value];
\* createCipheriv throws unless the key is 32 bytes long
encrypt(secret, iv, text) ==
    LET key == AesKey(secret)
        encrypted == GcmCipher(key, iv, Utf8(text))
        authTag == GcmTag(key, iv, encrypted)
    IN IF Len(key) # KEY_BYTES THEN [threw |-> TRUE]
       ELSE [threw |-> FALSE,
             value |-> ToHex(iv) \o << COLON >> \o ToHex(authTag) \o << COLON >> \o ToHex(encrypted)]

\* decrypt(text): [threw, value]
decrypt(secret, text) ==
    LET parts == Split(text, COLON)
        \* destructuring takes the first three parts; a missing one is undefined
        missing(n) == Len(parts) < n \/ parts[n] = << >>
        key == AesKey(secret)
        iv == FromHex(parts[1])
        authTag == FromHex(parts[2])
        encrypted == FromHex(parts[3])
    IN IF missing(1) \/ missing(2) \/ missing(3) THEN [threw |-> TRUE]
       \* createDecipheriv: invalid key length or empty IV
       ELSE IF Len(key) # KEY_BYTES \/ Len(iv) = 0 THEN [threw |-> TRUE]
       \* setAuthTag: invalid tag length
       ELSE IF Len(authTag) \notin GcmTagLengths THEN [threw |-> TRUE]
       \* final(): the tag does not authenticate the data
       ELSE IF authTag # SubSeq(GcmTag(key, iv, encrypted), 1, Len(authTag))
            THEN [threw |-> TRUE]
       ELSE [threw |-> FALSE, value |-> Utf8Decode(GcmDecipher(key, iv, encrypted))]

(***************************************************************************)
(* The engine's methods as functions of this.secret, the mode and their    *)
(* arguments.                                                              *)
(***************************************************************************)
\* a getter whose default is 'none'
ModeOfDefaultNone(cfg) == IF cfg.mode = Undefined \/ cfg.mode = "" THEN "none" ELSE cfg.mode

\* get mode(): this.config.mode || 'dual'
ModeOf(cfg) == IF cfg.mode = Undefined \/ cfg.mode = "" THEN "dual" ELSE cfg.mode

\* the test with <= in place of <
SecretRejectedOffByOne(cfg) == cfg.secret = << >> \/ Len(cfg.secret) <= MIN_SECRET

\* the constructor's test of the secret: throws when it holds
SecretRejected(cfg) == cfg.secret = << >> \/ Len(cfg.secret) < MIN_SECRET

embed(secret, iv, text) ==
    LET e == encrypt(secret, iv, text)
    IN IF e.threw THEN [threw |-> TRUE]
       ELSE [threw |-> FALSE, value |-> embedBlock(e.value)]

\* sign(content, payload) at time timestamp with IV iv: [threw, content, signature]
sign(secret, mode, content, payload, timestamp, iv) ==
    LET data == WithTimestamp(payload, timestamp)
        stego == mode = "steganography" \/ mode = "dual"
        hidden == embed(secret, iv, JsonStringify(data))
        signedContent == IF stego THEN content \o hidden.value ELSE content
    IN IF stego /\ hidden.threw THEN [threw |-> TRUE]
       ELSE IF mode = "hmac" \/ mode = "dual"
            THEN [threw |-> FALSE, content |-> signedContent,
                  signature |-> generateHMAC(secret, signedContent)]
       ELSE [threw |-> FALSE, content |-> signedContent]

\* a comparison of the lengths alone
verifyHMACLengthOnly(secret, content, signature) ==
    LET expected == Utf8(generateHMAC(secret, content))
        given == Utf8(signature)
    IN IF Len(expected) # Len(given) THEN [threw |-> TRUE]
       ELSE [threw |-> FALSE, value |-> TRUE]

\* verifyHMAC(content, signature): [threw, value]; timingSafeEqual throws a
\* RangeError when its two buffers differ in byte length
verifyHMAC(secret, content, signature) ==
    LET expected == Utf8(generateHMAC(secret, content))
        given == Utf8(signature)
    IN IF Len(expected) # Len(given) THEN [threw |-> TRUE]
       ELSE [threw |-> FALSE, value |-> (expected = given)]

ErrNoWatermark == "No signature watermark detected"
ErrCorrupt == "Corrupted or invalid signature bits"
\* no message at all
ErrNone == ""
ErrDecrypt == "Decryption failed or forged signature"

\* extract without its try block: the exceptions of decrypt and JSON.parse escape
extractNoCatch(secret, content) ==
    LET parts == Split(content, HEADER)
        encryptedHex == decodeBits(parts[Len(parts)])
        jsonStr == decrypt(secret, encryptedHex)
        data == JsonParse(jsonStr.value)
    IN IF Len(parts) < 2
       THEN [threw |-> FALSE, value |-> [isValid |-> FALSE, error |-> "No signature watermark detected"]]
       ELSE IF encryptedHex = Null \/ encryptedHex = << >>
            THEN [threw |-> FALSE, value |-> [isValid |-> FALSE, error |-> "Corrupted or invalid signature bits"]]
       ELSE IF jsonStr.threw \/ data.threw THEN [threw |-> TRUE]
       ELSE [threw |-> FALSE, value |-> [isValid |-> TRUE, payload |-> data.value]]

\* extract without the test of what decodeBits returned: null and '' go on
\* to decrypt, whose exception the catch turns into the third result
extractNoBitTest(secret, content) ==
    LET parts == Split(content, HEADER)
        rawHidden == parts[Len(parts)]
        encryptedHex == decodeBits(rawHidden)
        undecoded == encryptedHex = Null \/ encryptedHex = << >>
        jsonStr == decrypt(secret, encryptedHex)
        data == JsonParse(jsonStr.value)
        result ==
            IF Len(parts) < 2 THEN [isValid |-> FALSE, error |-> ErrNoWatermark]
            ELSE IF undecoded THEN [isValid |-> FALSE, error |-> ErrDecrypt]
            ELSE IF jsonStr.threw \/ data.threw THEN [isValid |-> FALSE, error |-> ErrDecrypt]
            ELSE IF HasKey(data.value, KEY_T)
                 THEN [isValid |-> TRUE, payload |-> data.value,
                       timestamp |-> Get(data.value, KEY_T)]
            ELSE [isValid |-> TRUE, payload |-> data.value]
    IN [threw |-> FALSE, value |-> result]

\* extract reading the segment after the first marker
extractFirstFrame(secret, content) ==
    LET parts == Split(content, HEADER)
        rawHidden == parts[Min(2, Len(parts))]
        encryptedHex == decodeBits(rawHidden)
        jsonStr == decrypt(secret, encryptedHex)
        data == JsonParse(jsonStr.value)
        result ==
            IF Len(parts) < 2 THEN [isValid |-> FALSE, error |-> ErrNoWatermark]
            ELSE IF encryptedHex = Null \/ encryptedHex = << >>
                 THEN [isValid |-> FALSE, error |-> ErrCorrupt]
            ELSE IF jsonStr.threw \/ data.threw THEN [isValid |-> FALSE, error |-> ErrDecrypt]
            ELSE IF HasKey(data.value, KEY_T)
                 THEN [isValid |-> TRUE, payload |-> data.value,
                       timestamp |-> Get(data.value, KEY_T)]
            ELSE [isValid |-> TRUE, payload |-> data.value]
    IN [threw |-> FALSE, value |-> result]

\* extract(content): [threw, value], value the VerificationResult.  The body
\* is one try block; its catch turns every exception of decrypt and of
\* JSON.parse into the third result, so the call itself never throws.
extract(secret, content) ==
    LET parts == Split(content, HEADER)
        rawHidden == parts[Len(parts)]
        encryptedHex == decodeBits(rawHidden)
        jsonStr == decrypt(secret, encryptedHex)
        data == JsonParse(jsonStr.value)
        result ==
            IF Len(parts) < 2 THEN [isValid |-> FALSE, error |-> ErrNoWatermark]
            ELSE IF encryptedHex = Null \/ encryptedHex = << >>
                 THEN [isValid |-> FALSE, error |-> ErrCorrupt]
            ELSE IF jsonStr.threw \/ data.threw THEN [isValid |-> FALSE, error |-> ErrDecrypt]
            ELSE IF HasKey(data.value, KEY_T)
                 THEN [isValid |-> TRUE, payload |-> data.value,
                       timestamp |-> Get(data.value, KEY_T)]
            ELSE [isValid |-> TRUE, payload |-> data.value]
    IN [threw |-> FALSE, value |-> result]

\* strip with the regular expression alone, without the loop after it
stripRegexOnly(content) ==
    LET lastHeaderIndex == LastIndexOf(content, HEADER)
        potentialSignature == Slice(content, lastHeaderIndex + 1, Len(content))
        isSignature == /\ potentialSignature # << >>
                       /\ \A i \in DOMAIN potentialSignature :
                             potentialSignature[i] = ZW_ZERO \/ potentialSignature[i] = ZW_ONE
    IN IF lastHeaderIndex = 0 THEN content
       ELSE IF isSignature THEN Slice(content, 1, lastHeaderIndex - 1)
       ELSE content

\* strip that takes every frame at the end of the content in one call
stripAllFrames(content) ==
    LET isTail(p) == /\ content[p] = HEADER
                     /\ \A i \in (p + 1)..Len(content) :
                           content[i] \in {HEADER, ZW_ZERO, ZW_ONE}
        tails == {p \in DOMAIN content : isTail(p)}
        first == CHOOSE p \in tails : \A q \in tails : p <= q
    IN IF tails = {} THEN content ELSE Slice(content, 1, first - 1)

\* strip(content)
strip(content) ==
    LET lastHeaderIndex == LastIndexOf(content, HEADER)
        potentialSignature == Slice(content, lastHeaderIndex + 1, Len(content))
        isBits == \A i \in DOMAIN potentialSignature :
                     potentialSignature[i] = ZW_ZERO \/ potentialSignature[i] = ZW_ONE
        \* the regular expression needs at least one unit
        isSignature == potentialSignature # << >> /\ isBits
    IN IF lastHeaderIndex = 0 THEN content
       ELSE IF isSignature THEN Slice(content, 1, lastHeaderIndex - 1)
       ELSE IF ~isBits THEN content
       ELSE Slice(content, 1, lastHeaderIndex - 1)

(***************************************************************************)
(* The state: one engine and the text a caller passes through it.          *)
(***************************************************************************)
VARIABLES
    config,   \* the configuration object of the caller, kept by reference in this.config
    engine,   \* the engine of the last `new SignatureEngine(config)`: [exists, secret]
    doc,      \* the text at hand
    how,      \* how doc came to be: [kind, at]
    sgn,      \* the last sign call: its arguments, the time, the IV and its result
    res,      \* the outcome of the last step: [op, threw, ...]
    tasks,    \* the calls several tasks have under way on the engine, one record each
    sentry,   \* the Sentry of the last `new Sentry(config)`:
              \* [exists, max, requestHistory, sessionHistory]
    clock,    \* Date.now() at the last call that read it
    calls,    \* what the calls of Sentry, CircuitBreaker and OnionAI returned, oldest first
    breaker,  \* the CircuitBreaker of the last `new CircuitBreaker(config, store)`
              \* and what its store holds
    flights,  \* the checkLimit calls under way, one record per caller
    onion     \* the OnionAI of the last `new OnionAI(config)`

vars == << config, engine, doc, how, sgn, res, tasks, sentry, clock, calls,
          breaker, flights, onion >>

\* what the steps of a caller who works alone with one text leave alone
otherVars == << tasks, sentry, clock, calls, breaker, flights, onion >>

\* what the steps of the tasks and of the Sentry leave alone
textVars == << doc, how, sgn, res >>

NoEngine == [exists |-> FALSE, secret |-> << >>]

NoSign == [done |-> FALSE, input |-> << >>, payload |-> << >>, t |-> 0, iv |-> << >>,
           secret |-> << >>, mode |-> "none", content |-> << >>,
           hasSig |-> FALSE, signature |-> << >>]

Fresh == [kind |-> "text", at |-> 0]

(***************************************************************************)
(* Inputs.                                                                 *)
(***************************************************************************)
\* how many distinct sign times and IVs the environment offers
MaxClock == 2
NumIVs == 2

\* "12345678901234567890123456789012", the secret of tests/signature_strip.test.ts
SecretA == [i \in 1..32 |-> 48 + (i % 10)]
\* 33 characters, the first 32 those of SecretA
SecretALong == SecretA \o << 120 >>
\* 32 characters, differing from SecretA in the last one only
SecretB == [SecretA EXCEPT ![32] = 98]
\* 31 characters
SecretShort == SubSeq(SecretA, 1, 31)
\* 'short'
SecretTiny == << 115, 104, 111, 114, 116 >>

Modes == {"none", "hmac", "steganography", "dual", Undefined}

Configs ==
    {[secret |-> SecretA, mode |-> m] : m \in Modes}
    \cup {[secret |-> SecretB, mode |-> "dual"],
          [secret |-> SecretALong, mode |-> "steganography"],
          [secret |-> SecretShort, mode |-> "dual"],
          [secret |-> SecretTiny, mode |-> Undefined],
          [secret |-> << >>, mode |-> "hmac"]}

TextPlain == << 72, 105 >>                \* "Hi"
TextMarked == << 97, HEADER, ZW_ONE >>    \* holds a marker and a bit code point
TextSurrogate == << 120, 55296 >>         \* "x" and an unpaired surrogate
Texts == {<< >>, TextPlain, TextMarked, TextSurrogate}

Payloads ==
    {<< >>,
     << [k |-> KEY_U, v |-> 7] >>,
     << [k |-> KEY_T, v |-> 0], [k |-> KEY_U, v |-> 12] >>}

Times == 1..MaxClock

\* the values crypto.randomBytes(12) returns in the model
IvOf(n) == [i \in 1..IV_BYTES |-> (n * 83 + i * 29) % 256]
IVs == {IvOf(n) : n \in 1..NumIVs}

(***************************************************************************)
(* Steps.                                                                  *)
(***************************************************************************)
\* the tasks that call the engine
Tasks == {1, 2}

\* a task with no call under way; the fields of a call are its arguments,
\* its local variables timestamp and signedContent, the IV it drew, and
\* what it returned
IdleTask ==
    [pc |-> "idle", op |-> "none", content |-> << >>, payload |-> << >>, signature |-> << >>,
     timestamp |-> 0, iv |-> << >>, signedContent |-> << >>, out |-> [threw |-> FALSE]]

NoSentry == [exists |-> FALSE, max |-> 0, requestHistory |-> << >>, sessionHistory |-> << >>]

\* no CircuitBreaker yet; store maps the user ids it holds to their usage
NoBreaker == [exists |-> FALSE, maxTokens |-> 0, maxCost |-> 0, windowMs |-> 0,
              costPer1kTokens |-> 0, store |-> << >>]

\* the callers of checkLimit
Callers == {1, 2}

\* a caller with no checkLimit call under way; the fields of a call are its
\* arguments, its local variables usage and now, and how it ended
IdleFlight == [pc |-> "idle", userId |-> "", estimatedTokens |-> 0,
               found |-> FALSE, usage |-> [tokens |-> 0, cost |-> 0, lastReset |-> 0],
               now |-> 0, threw |-> FALSE]

NoOnion == [exists |-> FALSE]

Init ==
    /\ config = [secret |-> << >>, mode |-> Undefined]
    /\ engine = NoEngine
    /\ doc = << >>
    /\ how = Fresh
    /\ sgn = NoSign
    /\ res = [op |-> "init", threw |-> FALSE]
    /\ tasks = [k \in Tasks |-> IdleTask]
    /\ sentry = NoSentry
    /\ clock = 0
    /\ calls = << >>
    /\ breaker = NoBreaker
    /\ flights = [k \in Callers |-> IdleFlight]
    /\ onion = NoOnion

\* new SignatureEngine(cfg)
Construct(cfg) ==
    /\ config' = cfg
    /\ engine' = IF SecretRejected(cfg) THEN NoEngine
                 ELSE [exists |-> TRUE, secret |-> cfg.secret]
    /\ res' = [op |-> "new", threw |-> SecretRejected(cfg)]
    /\ UNCHANGED << doc, how, sgn >>

\* the caller takes up a text that was not signed
NewText(text) ==
    /\ doc' = text
    /\ how' = Fresh
    /\ sgn' = NoSign
    /\ res' = [op |-> "text", threw |-> FALSE]
    /\ UNCHANGED << config, engine >>

\* engine.sign(doc, payload), the text at hand becoming the signed content
Sign(payload, timestamp, iv) ==
    /\ engine.exists
    /\ ~sgn.done /\ how.kind = "text"
    /\ \E r \in {sign(engine.secret, ModeOf(config), doc, payload, timestamp, iv)} :
          /\ res' = [op |-> "sign", threw |-> r.threw]
          /\ doc' = IF r.threw THEN doc ELSE r.content
          /\ how' = IF r.threw THEN how ELSE [kind |-> "signed", at |-> 0]
          /\ sgn' = IF r.threw THEN sgn
                    ELSE [done |-> TRUE, input |-> doc, payload |-> payload, t |-> timestamp,
                          iv |-> iv, secret |-> engine.secret, mode |-> ModeOf(config),
                          content |-> r.content,
                          hasSig |-> "signature" \in DOMAIN r,
                          signature |-> IF "signature" \in DOMAIN r THEN r.signature ELSE << >>]
    /\ UNCHANGED << config, engine >>

\* engine.extract(doc)
Extract ==
    /\ engine.exists
    /\ \E r \in {extract(engine.secret, doc)} :
          res' = IF r.threw THEN [op |-> "extract", threw |-> TRUE]
                 ELSE [op |-> "extract", threw |-> FALSE, value |-> r.value]
    /\ UNCHANGED << config, engine, doc, how, sgn >>

\* engine.strip(doc)
Strip ==
    /\ engine.exists
    /\ res' = [op |-> "strip", threw |-> FALSE, value |-> strip(doc)]
    /\ UNCHANGED << config, engine, doc, how, sgn >>

\* engine.verifyHMAC(content, signature)
VerifyHMAC(content, signature, of, with) ==
    /\ engine.exists
    /\ \E r \in {verifyHMAC(engine.secret, content, signature)} :
          res' = IF r.threw THEN [op |-> "verifyHMAC", threw |-> TRUE, of |-> of, with |-> with]
                 ELSE [op |-> "verifyHMAC", threw |-> FALSE, of |-> of, with |-> with,
                       value |-> r.value]
    /\ UNCHANGED << config, engine, doc, how, sgn >>

\* somebody removes the last character of the signed text: content.slice(0, -1)
DropLast ==
    /\ how.kind = "signed" /\ Len(doc) > 0
    /\ doc' = SubSeq(doc, 1, Len(doc) - 1)
    /\ how' = [kind |-> "dropLast", at |-> Len(doc)]
    /\ res' = [op |-> "edit", threw |-> FALSE]
    /\ UNCHANGED << config, engine, sgn >>

\* somebody replaces the character at position i by another one
ChangeUnit(i, c) ==
    /\ how.kind = "signed"
    /\ i \in DOMAIN doc /\ doc[i] # c
    /\ doc' = [doc EXCEPT ![i] = c]
    /\ how' = [kind |-> "changed", at |-> i]
    /\ res' = [op |-> "edit", threw |-> FALSE]
    /\ UNCHANGED << config, engine, sgn >>

\* somebody appends characters to the signed text
AppendUnits(us) ==
    /\ how.kind = "signed"
    /\ doc' = doc \o us
    /\ how' = [kind |-> "appended", at |-> Len(doc) + 1]
    /\ res' = [op |-> "edit", threw |-> FALSE]
    /\ UNCHANGED << config, engine, sgn >>

\* somebody replaces one bit code point of the frame by the other one
FlipBit(i) ==
    /\ how.kind = "signed"
    /\ i \in DOMAIN doc /\ i > Len(sgn.input) + 1
    /\ doc[i] \in {ZW_ZERO, ZW_ONE}
    /\ doc' = [doc EXCEPT ![i] = IF doc[i] = ZW_ZERO THEN ZW_ONE ELSE ZW_ZERO]
    /\ how' = [kind |-> "flipped", at |-> i]
    /\ res' = [op |-> "edit", threw |-> FALSE]
    /\ UNCHANGED << config, engine, sgn >>

\* a text arrives from somewhere else (a leak scan, a forgery)
Receive(text) ==
    /\ doc' = text
    /\ how' = [kind |-> "received", at |-> 0]
    /\ sgn' = NoSign
    /\ res' = [op |-> "text", threw |-> FALSE]
    /\ UNCHANGED << config, engine >>

(***************************************************************************)
(* Texts no engine signed: lone markers, noise after a marker, bit runs    *)
(* that decode to no block, to a block with a wrong tag, to a block cut    *)
(* short, to an authentic block whose plaintext is no JSON, and to an      *)
(* authentic block whose plaintext is the object without members.          *)
(***************************************************************************)
BlockOf(text) == encrypt(SecretA, IvOf(1), text).value

Hostile ==
    {<< HEADER >>,
     << 72, HEADER, 120, 121 >>,
     embedBlock(<< 122, 122 >>),
     embedBlock(<< 97, 98, COLON, 99, 100, COLON, 101, 102 >>),
     embedBlock(ToHex(IvOf(1)) \o << COLON >> \o ToHex([i \in 1..TAG_BYTES |-> 0])
                \o << COLON, 55, 98, 55, 100 >>),
     embedBlock(SubSeq(BlockOf(<< 123, 125 >>), 1, Len(BlockOf(<< 123, 125 >>)) - 2)),
     << 72 >> \o embedBlock(BlockOf(<< 104, 105 >>)),
     embedBlock(BlockOf(<< 123, 125 >>))}

Next ==
    /\ \/ \E cfg \in Configs : Construct(cfg)
       \/ \E text \in Texts : NewText(text)
       \/ \E text \in Hostile : Receive(text)
       \/ \E payload \in Payloads, timestamp \in Times, iv \in IVs : Sign(payload, timestamp, iv)
       \/ Extract
       \/ Strip
       \/ DropLast
    /\ UNCHANGED otherVars

Spec == Init /\ [][Next]_vars

(***************************************************************************)
(* The same engine under an adversary who edits one signed text: the       *)
(* caller signs once, at one time and with one IV, in hmac or dual mode.   *)
(***************************************************************************)
TamperConfigs == {[secret |-> SecretA, mode |-> "hmac"], [secret |-> SecretA, mode |-> "dual"]}
TamperTexts == {TextSurrogate}
TamperPayload == << [k |-> KEY_U, v |-> 7] >>

\* units an editor writes over a character: "!", an unpaired surrogate, U+FFFD
Replacements == {33, 55297, 65533}

\* the eight bit code points of one character
BitsOf(c) == SubSeq(embedBlock(<< c >>), 2, BYTE_BITS + 1)

\* what an editor appends: one bit, the bits of "0", of "00", of ":x" and of "g"
Appendices ==
    {<< ZW_ONE >>, BitsOf(48), BitsOf(48) \o BitsOf(48), BitsOf(COLON) \o BitsOf(120), BitsOf(103)}

\* signatures a caller may pass that no sign call returned
BadSignatures ==
    [empty |-> << >>,
     nothex |-> [i \in 1..(2 * HMAC_BYTES) |-> 122],
     wide |-> [i \in 1..(2 * HMAC_BYTES) |-> 233]]

NextTamper ==
    /\ \/ \E cfg \in TamperConfigs : ~sgn.done /\ Construct(cfg)
       \/ \E text \in TamperTexts : NewText(text)
       \/ Sign(TamperPayload, 1, IvOf(1))
       \/ \E i \in 1..Len(sgn.input), c \in Replacements : ChangeUnit(i, c)
       \/ \E i \in DOMAIN doc : FlipBit(i)
       \/ \E us \in Appendices : sgn.mode = "dual" /\ AppendUnits(us)
       \/ DropLast
       \/ Extract
       \/ sgn.hasSig /\ VerifyHMAC(doc, sgn.signature, "doc", "signature")
       \/ sgn.hasSig /\ how.kind = "signed" /\ VerifyHMAC(sgn.input, sgn.signature, "input", "signature")
       \/ \E bad \in DOMAIN BadSignatures :
             how.kind \in {"text", "signed"} /\ VerifyHMAC(doc, BadSignatures[bad], "doc", bad)
    /\ UNCHANGED otherVars

SpecTamper == Init /\ [][NextTamper]_vars

(***************************************************************************)
(* Signing again what sign returned: the content of an earlier call is the *)
(* text of the next one, within the same millisecond or later, each call   *)
(* with the IV randomBytes gives it.                                       *)
(***************************************************************************)
\* how many times a caller signs a signed content again
MaxResign == 2

ResignConfigs == {[secret |-> SecretA, mode |-> "steganography"]}

ResignPayloads == {<< [k |-> KEY_U, v |-> 7] >>, << [k |-> KEY_T, v |-> 0], [k |-> KEY_U, v |-> 12] >>}

\* engine.sign(doc, payload) on a content an earlier sign call returned
Resign(payload, timestamp, iv) ==
    /\ engine.exists
    /\ sgn.done /\ how.kind \in {"signed", "resigned"}
    /\ how.at < MaxResign /\ timestamp >= sgn.t
    /\ \E r \in {sign(engine.secret, ModeOf(config), doc, payload, timestamp, iv)} :
          /\ res' = [op |-> "sign", threw |-> r.threw]
          /\ doc' = IF r.threw THEN doc ELSE r.content
          /\ how' = IF r.threw THEN how ELSE [kind |-> "resigned", at |-> how.at + 1]
          /\ sgn' = IF r.threw THEN sgn
                    ELSE [done |-> TRUE, input |-> doc, payload |-> payload, t |-> timestamp,
                          iv |-> iv, secret |-> engine.secret, mode |-> ModeOf(config),
                          content |-> r.content,
                          hasSig |-> "signature" \in DOMAIN r,
                          signature |-> IF "signature" \in DOMAIN r THEN r.signature ELSE << >>,
                          \* the text the first sign call was given
                          origin |-> IF how.kind = "signed" THEN sgn.input ELSE sgn.origin]
    /\ UNCHANGED << config, engine >>

NextResign ==
    /\ \/ \E cfg \in ResignConfigs : ~sgn.done /\ Construct(cfg)
       \/ NewText(TextMarked)
       \/ Sign(TamperPayload, 1, IvOf(1))
       \/ \E payload \in ResignPayloads, timestamp \in Times \cap {sgn.t, sgn.t + 1}, iv \in IVs :
             Resign(payload, timestamp, iv)
       \/ Extract
    /\ UNCHANGED otherVars

SpecResign == Init /\ [][NextResign]_vars

(***************************************************************************)
(* The caller's configuration object.  The constructor keeps the object    *)
(* itself in this.config and a copy of its secret in this.secret; the      *)
(* caller still holds the object and may write to it.  Secrets are counted *)
(* in characters by the constructor and in bytes by the cipher.            *)
(***************************************************************************)
\* 32 times U+00E9: 32 characters, 64 bytes in UTF-8
SecretWide == [i \in 1..32 |-> 233]

LifeConfigs ==
    {[secret |-> SecretA, mode |-> "hmac"],
     [secret |-> SecretA, mode |-> "dual"],
     [secret |-> SecretWide, mode |-> "hmac"],
     [secret |-> SecretWide, mode |-> "steganography"],
     [secret |-> SecretWide, mode |-> Undefined]}

\* the caller assigns to a property of the object it passed to the constructor
MutateConfig(cfg) ==
    /\ engine.exists
    /\ cfg # config
    /\ config' = cfg
    /\ res' = [op |-> "assign", threw |-> FALSE]
    /\ UNCHANGED << engine, doc, how, sgn >>

NextLife ==
    /\ \/ \E cfg \in LifeConfigs : Construct(cfg)
       \/ \E mode \in {"none", "steganography"} : MutateConfig([config EXCEPT !.mode = mode])
       \/ \E secret \in {SecretB, SecretTiny} : MutateConfig([config EXCEPT !.secret = secret])
       \/ NewText(TextPlain)
       \/ \E timestamp \in Times, iv \in IVs : Sign(TamperPayload, timestamp, iv)
       \/ Extract
       \/ Strip
       \/ sgn.hasSig /\ VerifyHMAC(doc, sgn.signature, "doc", "signature")
    /\ UNCHANGED otherVars

SpecLife == Init /\ [][NextLife]_vars

(***************************************************************************)
(* Several tasks on one engine.  A call has its arguments and its local    *)
(* variables to itself and reads this.secret and this.config.  The steps   *)
(* of sign are taken apart, its two halves free to interleave with the     *)
(* calls of the other tasks: more interleavings than one event loop gives. *)
(***************************************************************************)
TaskConfigs == {[secret |-> SecretA, mode |-> "hmac"], [secret |-> SecretA, mode |-> "dual"]}

\* a content signed earlier in dual mode, and its signature
SignedSample == sign(SecretA, "dual", TextPlain, TamperPayload, 1, IvOf(1))

TaskTexts == {TextPlain, SignedSample.content}

\* a task calls sign, extract, strip or verifyHMAC
Call(k, op, content, payload, signature) ==
    /\ engine.exists
    /\ tasks[k].pc = "idle"
    /\ tasks' = [tasks EXCEPT ![k] =
                    [IdleTask EXCEPT !.pc = "called", !.op = op, !.content = content,
                                     !.payload = payload, !.signature = signature]]
    /\ UNCHANGED << config, engine, textVars, sentry, clock, calls, breaker, flights, onion >>

\* when the steps of a call can be taken: the methods are synchronous, none
\* of them awaits, takes a lock or tests what another call does
EmbedReady(k) == tasks[k].pc = "called" /\ tasks[k].op = "sign"
HmacReady(k) == tasks[k].pc = "signing"
RunReady(k) == tasks[k].pc = "called" /\ tasks[k].op # "sign"

\* sign, lines 52-63: the timestamp, the data, the frame
SignEmbed(k, timestamp, iv) ==
    /\ EmbedReady(k)
    /\ \E hidden \in {embed(engine.secret, iv,
                            JsonStringify(WithTimestamp(tasks[k].payload, timestamp)))} :
          tasks' = [tasks EXCEPT ![k] =
             IF ModeOf(config) \notin {"steganography", "dual"}
             THEN [@ EXCEPT !.pc = "signing", !.timestamp = timestamp, !.iv = iv,
                            !.signedContent = tasks[k].content]
             ELSE IF hidden.threw
             THEN [@ EXCEPT !.pc = "returned", !.timestamp = timestamp, !.iv = iv,
                            !.out = [threw |-> TRUE]]
             ELSE [@ EXCEPT !.pc = "signing", !.timestamp = timestamp, !.iv = iv,
                            !.signedContent = tasks[k].content \o hidden.value]]
    /\ UNCHANGED << config, engine, textVars, sentry, clock, calls, breaker, flights, onion >>

\* a signedContent kept in one place for all calls: a call that finds another
\* one between its two halves takes the content of that one
SignedContentShared(k) ==
    LET between == {j \in Tasks : j # k /\ tasks[j].pc = "signing"}
    IN IF between = {} THEN tasks[k].signedContent
       ELSE tasks[CHOOSE j \in between : TRUE].signedContent

\* let signedContent: a local variable of the call
SignedContentOf(k) == tasks[k].signedContent

\* sign, lines 65-71: the signature, the return
SignHmac(k) ==
    /\ HmacReady(k)
    /\ tasks' = [tasks EXCEPT ![k] =
          [@ EXCEPT !.pc = "returned",
                    !.out = IF ModeOf(config) \in {"hmac", "dual"}
                            THEN [threw |-> FALSE, content |-> SignedContentOf(k),
                                  signature |-> generateHMAC(engine.secret, SignedContentOf(k))]
                            ELSE [threw |-> FALSE, content |-> SignedContentOf(k)]]]
    /\ UNCHANGED << config, engine, textVars, sentry, clock, calls, breaker, flights, onion >>

\* extract, strip and verifyHMAC: one step each
RunCall(k) ==
    /\ RunReady(k)
    /\ tasks' = [tasks EXCEPT ![k] =
          [@ EXCEPT !.pc = "returned",
                    !.out = CASE tasks[k].op = "extract" -> extract(engine.secret, tasks[k].content)
                              [] tasks[k].op = "strip" -> [threw |-> FALSE, value |-> strip(tasks[k].content)]
                              [] OTHER -> verifyHMAC(engine.secret, tasks[k].content, tasks[k].signature)]]
    /\ UNCHANGED << config, engine, textVars, sentry, clock, calls, breaker, flights, onion >>

\* the task takes what its call returned
Return(k) ==
    /\ tasks[k].pc = "returned"
    /\ tasks' = [tasks EXCEPT ![k] = IdleTask]
    /\ UNCHANGED << config, engine, textVars, sentry, clock, calls, breaker, flights, onion >>

\* the next step of the call of task k, if it has one under way
StepOf(k) ==
    \/ \E timestamp \in Times, iv \in IVs : SignEmbed(k, timestamp, iv)
    \/ SignHmac(k)
    \/ RunCall(k)

NextTasks ==
    \/ /\ \E cfg \in TaskConfigs : ~engine.exists /\ Construct(cfg)
       /\ UNCHANGED otherVars
    \/ \E k \in Tasks : Call(k, "sign", TextPlain, TamperPayload, << >>)
    \/ \E k \in Tasks, text \in TaskTexts : Call(k, "extract", text, << >>, << >>)
    \/ \E k \in Tasks, text \in TaskTexts : Call(k, "strip", text, << >>, << >>)
    \/ \E k \in Tasks, text \in TaskTexts :
          Call(k, "verifyHMAC", text, << >>, SignedSample.signature)
    \/ \E k \in Tasks : StepOf(k)
    \/ \E k \in Tasks : Return(k)

SpecTasks == Init /\ [][NextTasks]_vars

(***************************************************************************)
(* Sentry.checkRateLimit (sentry.ts:50-71): the history of the requests    *)
(* let through, read against Date.now().  Times are in milliseconds; the   *)
(* clock of a call is that of the call before it or later.                 *)
(***************************************************************************)
\* now - 60000
MINUTE == 60000

RATE_LIMIT_THREAT == "Rate limit exceeded (Max requests per minute)"

\* how many calls of checkRateLimit a behaviour has
MaxCalls == 5

\* values of maxRequestsPerMinute
Limits == {0, 1, 2}

\* the milliseconds between a call and the call before it
Gaps == {0, 1, 29999, 30000, 59999, 60000}

\* new Sentry({ maxRequestsPerMinute: max })
NewSentry(max) ==
    /\ sentry' = [exists |-> TRUE, max |-> max, requestHistory |-> << >>,
                  sessionHistory |-> << >>]
    /\ calls' = << >>
    /\ UNCHANGED << config, engine, textVars, tasks, clock, breaker, flights, onion >>

\* a filter that keeps the request made exactly one minute ago
RecentInclusive(history, now) == SelectSeq(history, LAMBDA r : r.timestamp >= now - MINUTE)

\* requestHistory.filter(r => r.timestamp > oneMinuteAgo)
Recent(history, now) == SelectSeq(history, LAMBDA r : r.timestamp > now - MINUTE)

\* sentry.checkRateLimit(), gap milliseconds after the call before it
CheckRateLimit(gap) ==
    /\ sentry.exists
    /\ Len(calls) < MaxCalls
    /\ LET now == clock + gap
           kept == Recent(sentry.requestHistory, now)
       IN /\ clock' = now
          /\ IF Len(kept) >= sentry.max
             THEN /\ sentry' = [sentry EXCEPT !.requestHistory = kept]
                  /\ calls' = Append(calls, [at |-> now, safe |-> FALSE,
                                             threats |-> << RATE_LIMIT_THREAT >>,
                                             riskScore |-> 1])
             ELSE /\ sentry' = [sentry EXCEPT
                                   !.requestHistory = Append(kept, [timestamp |-> now])]
                  /\ calls' = Append(calls, [at |-> now, safe |-> TRUE,
                                             threats |-> << >>, riskScore |-> 0])
    /\ UNCHANGED << config, engine, textVars, tasks, breaker, flights, onion >>

NextSentry ==
    \/ \E max \in Limits : ~sentry.exists /\ NewSentry(max)
    \/ \E gap \in Gaps : CheckRateLimit(gap)

SpecSentry == Init /\ [][NextSentry]_vars

(***************************************************************************)
(* The bit code alone: every string over the alphabet of a block (hex      *)
(* digits and ':') up to a length is written as a frame and read back.     *)
(***************************************************************************)
\* how long the strings are
BlockLen == 2

\* the characters of iv.toString('hex') + ':' + authTag + ':' + encrypted,
\* and the upper-case hex digits Buffer.from(.., 'hex') reads as well
BlockAlphabet == (48..57) \cup (97..102) \cup (65..70) \cup {COLON}

Blocks == UNION {[1..n -> BlockAlphabet] : n \in 0..BlockLen}

\* embed, after encrypt returned h: the marker and the bit code points of h
EncodeBlock(h) ==
    /\ how.kind = "text"
    /\ doc' = embedBlock(h)
    /\ how' = [kind |-> "frame", at |-> 0]
    /\ sgn' = [NoSign EXCEPT !.input = h]
    /\ res' = [op |-> "embed", threw |-> FALSE]
    /\ UNCHANGED << config, engine >>

\* decodeBits on what follows the marker, as extract calls it
DecodeFrame ==
    /\ how.kind = "frame" /\ res.op = "embed"
    /\ res' = [op |-> "decodeBits", threw |-> FALSE, value |-> decodeBits(Tail(doc))]
    /\ UNCHANGED << config, engine, doc, how, sgn >>

NextBits ==
    /\ \/ \E h \in Blocks : EncodeBlock(h)
       \/ DecodeFrame
    /\ UNCHANGED otherVars

SpecBits == Init /\ [][NextBits]_vars

(***************************************************************************)
(* The frame as a suffix: somebody writes after the frame of a signed      *)
(* content, before it, or over the visible text, and the holder of the key *)
(* calls extract and strip on what comes back.                             *)
(***************************************************************************)
SuffixConfigs ==
    {[secret |-> SecretA, mode |-> "steganography"], [secret |-> SecretA, mode |-> "dual"]}

SuffixTexts == {TextPlain, TextMarked}

\* what is written after the frame: "x", U+FEFF, "x" and a bit code point,
\* and the marker
Noise == {<< 120 >>, << 65279 >>, << 120, ZW_ONE >>, << HEADER >>}

\* what is written before the frame or over a character of the text
Insertions == {<< 33 >>, << HEADER >>, << HEADER, ZW_ONE >>}
Overwrites == {33, HEADER}

\* somebody inserts characters at position p of the signed content
InsertBefore(p, us) ==
    /\ how.kind = "signed"
    /\ p \in 1..(Len(sgn.input) + 1)
    /\ doc' = SubSeq(doc, 1, p - 1) \o us \o SubSeq(doc, p, Len(doc))
    /\ how' = [kind |-> "inserted", at |-> p]
    /\ res' = [op |-> "edit", threw |-> FALSE]
    /\ UNCHANGED << config, engine, sgn >>

NextSuffix ==
    /\ \/ \E cfg \in SuffixConfigs : ~sgn.done /\ Construct(cfg)
       \/ \E text \in SuffixTexts : NewText(text)
       \/ Sign(TamperPayload, 1, IvOf(1))
       \/ \E us \in Noise : AppendUnits(us)
       \/ \E p \in {1, Len(sgn.input) + 1}, us \in Insertions : InsertBefore(p, us)
       \/ \E i \in 1..Len(sgn.input), c \in Overwrites : ChangeUnit(i, c)
       \/ Extract
       \/ Strip
    /\ UNCHANGED otherVars

SpecSuffix == Init /\ [][NextSuffix]_vars

(***************************************************************************)
(* Stripping what was signed, once or several times: the caller keeps what *)
(* strip returned and calls strip on it again.                             *)
(***************************************************************************)
StripConfigs ==
    {[secret |-> SecretA, mode |-> "steganography"], [secret |-> SecretA, mode |-> "dual"]}

StripTexts == {TextPlain, TextMarked}

\* a text that ends with its only marker
TextLoneMarker == << 72, HEADER >>

\* how many sign calls the content at hand went through
TimesSigned == IF how.kind = "signed" THEN 1 ELSE how.at + 1

\* doc = engine.strip(doc), on a signed content or on what strip returned for it
StripInPlace ==
    /\ engine.exists
    /\ \/ how.kind \in {"signed", "resigned"}
       \/ how.kind = "stripped" /\ how.at > 0
    /\ doc' = strip(doc)
    /\ how' = IF how.kind = "stripped" THEN [how EXCEPT !.at = how.at - 1]
              ELSE [kind |-> "stripped", at |-> TimesSigned - 1, of |-> TimesSigned]
    /\ res' = [op |-> "strip", threw |-> FALSE, value |-> strip(doc)]
    /\ UNCHANGED << config, engine, sgn >>

NextStrip ==
    /\ \/ \E cfg \in StripConfigs : ~sgn.done /\ Construct(cfg)
       \/ \E text \in StripTexts : NewText(text)
       \/ Receive(TextLoneMarker)
       \/ Sign(TamperPayload, 1, IvOf(1))
       \/ \E payload \in ResignPayloads, iv \in IVs : Resign(payload, sgn.t, iv)
       \/ StripInPlace
       \/ how.kind = "received" /\ Strip
    /\ UNCHANGED otherVars

SpecStrip == Init /\ [][NextStrip]_vars

(***************************************************************************)
(* CircuitBreaker.  Money is counted in millionths of a dollar.  The store *)
(* is a BudgetStore: get and set are its only operations, each atomic, and *)
(* checkLimit gives up control at the await on each of them.               *)
(***************************************************************************)
DEFAULT_WINDOW_MS == 60000
DEFAULT_COST_PER_1K == 2000

\* how many checkLimit calls are made
MaxChecks == 3

\* BudgetConfig objects, 0 for a field left out: the breaker of the README,
\* and one with a short window and a limit of $0.006
BudgetConfigs ==
    {[maxTokens |-> 5000, maxCost |-> 0, windowMs |-> 0, costPer1kTokens |-> 0],
     [maxTokens |-> 5000, maxCost |-> 6000, windowMs |-> 1000, costPer1kTokens |-> 0]}

UserIds == {"user_123", "user_456"}

Estimates == {2000, 3000, 6000}

\* milliseconds between two readings of Date.now()
BudgetGaps == {0, 1000, 1001, 60001}

\* new CircuitBreaker(cfg), with a store that holds nothing
NewBreaker(cfg) ==
    /\ breaker' = [exists |-> TRUE,
                   maxTokens |-> cfg.maxTokens,
                   maxCost |-> cfg.maxCost,
                   windowMs |-> IF cfg.windowMs = 0 THEN DEFAULT_WINDOW_MS ELSE cfg.windowMs,
                   costPer1kTokens |-> IF cfg.costPer1kTokens = 0 THEN DEFAULT_COST_PER_1K
                                       ELSE cfg.costPer1kTokens,
                   store |-> << >>]
    /\ flights' = [k \in Callers |-> IdleFlight]
    /\ calls' = << >>
    /\ UNCHANGED << config, engine, textVars, tasks, sentry, clock, onion >>

\* the calls that have begun and not returned
UnderWay == {k \in Callers : flights[k].pc \in {"got", "set"}}

\* the window test with >= in place of >
WindowPassedInclusive(now, usage, windowMs) == now - usage.lastReset >= windowMs

\* now - usage.lastReset > this.windowMs
WindowPassed(now, usage, windowMs) == now - usage.lastReset > windowMs

\* Map-like update of the store
StoreSet(store, userId, usage) ==
    [u \in DOMAIN store \cup {userId} |-> IF u = userId THEN usage ELSE store[u]]

\* checkLimit(userId, estimatedTokens) up to its first await: store.get(userId)
CheckLimitGet(k, userId, estimatedTokens) ==
    /\ breaker.exists
    /\ flights[k].pc \in {"idle", "done"}
    /\ Len(calls) + Cardinality(UnderWay) < MaxChecks
    /\ flights' = [flights EXCEPT ![k] =
                      [pc |-> "got", userId |-> userId, estimatedTokens |-> estimatedTokens,
                       found |-> userId \in DOMAIN breaker.store,
                       usage |-> IF userId \in DOMAIN breaker.store THEN breaker.store[userId]
                                 ELSE IdleFlight.usage,
                       now |-> 0, threw |-> FALSE,
                       \* for the record: what the store held when the call began
                       before |-> breaker.store]]
    /\ UNCHANGED << config, engine, textVars, tasks, sentry, clock, calls, breaker, onion >>

\* what a call that returned or threw leaves in the log
Outcome(f, now, threw, store) ==
    [op |-> "checkLimit", userId |-> f.userId, estimatedTokens |-> f.estimatedTokens,
     at |-> now, threw |-> threw, before |-> f.before, after |-> store]

\* checkLimit from Date.now() to the call of store.set, or to the throw
CheckLimitCheck(k, gap) ==
    /\ flights[k].pc = "got"
    /\ clock' = clock + gap
    /\ LET f == flights[k]
           now == clock + gap
           fresh == [tokens |-> 0, cost |-> 0, lastReset |-> now]
           usage0 == IF ~f.found THEN fresh ELSE f.usage
           usage1 == IF WindowPassed(now, usage0, breaker.windowMs) THEN fresh ELSE usage0
           estimatedCost == (f.estimatedTokens * breaker.costPer1kTokens) \div 1000
           overTokens == usage1.tokens + f.estimatedTokens > breaker.maxTokens
           overCost == breaker.maxCost # 0 /\ usage1.cost + estimatedCost > breaker.maxCost
       IN IF overTokens \/ overCost
          THEN /\ flights' = [flights EXCEPT ![k] =
                                 [f EXCEPT !.pc = "done", !.now = now, !.threw = TRUE,
                                           !.usage = usage1]]
               /\ calls' = Append(calls, Outcome(f, now, TRUE, breaker.store))
          ELSE /\ flights' = [flights EXCEPT ![k] =
                                 [f EXCEPT !.pc = "set", !.now = now,
                                           !.usage = [tokens |-> usage1.tokens + f.estimatedTokens,
                                                      cost |-> usage1.cost + estimatedCost,
                                                      lastReset |-> usage1.lastReset]]]
               /\ calls' = calls
    /\ UNCHANGED << config, engine, textVars, tasks, sentry, breaker, onion >>

\* store.set(userId, usage) takes effect and checkLimit returns
CheckLimitSet(k) ==
    /\ flights[k].pc = "set"
    /\ \E store \in {StoreSet(breaker.store, flights[k].userId, flights[k].usage)} :
          /\ breaker' = [breaker EXCEPT !.store = store]
          /\ calls' = Append(calls, Outcome(flights[k], flights[k].now, FALSE, store))
    /\ flights' = [flights EXCEPT ![k].pc = "done"]
    /\ UNCHANGED << config, engine, textVars, tasks, sentry, clock, onion >>

\* one caller who awaits every call before the next one
NextBudget ==
    \/ \E cfg \in BudgetConfigs : ~breaker.exists /\ NewBreaker(cfg)
    \/ \E userId \in UserIds, estimatedTokens \in Estimates :
          CheckLimitGet(1, userId, estimatedTokens)
    \/ \E gap \in BudgetGaps : CheckLimitCheck(1, gap)
    \/ CheckLimitSet(1)

SpecBudget == Init /\ [][NextBudget]_vars

\* several callers, none waiting for the other: calls for the same user that
\* all fall into one window
RaceConfigs == {[maxTokens |-> 5000, maxCost |-> 0, windowMs |-> 0, costPer1kTokens |-> 0]}
RaceEstimates == {2000, 3000}
RaceGaps == {0, 1}

NextRace ==
    \/ \E cfg \in RaceConfigs : ~breaker.exists /\ NewBreaker(cfg)
    \/ \E k \in Callers, userId \in UserIds, estimatedTokens \in RaceEstimates :
          CheckLimitGet(k, userId, estimatedTokens)
    \/ \E k \in Callers, gap \in RaceGaps : CheckLimitCheck(k, gap)
    \/ \E k \in Callers : CheckLimitSet(k)

SpecRace == Init /\ [][NextRace]_vars

(***************************************************************************)
(* Sentry.checkSessionHistory.  riskIncrease is counted in hundredths.     *)
(* this.sessionHistory is a Map: a function on the session ids it holds.   *)
(***************************************************************************)
FIVE_MINUTES == 300000
HIGH_FREQUENCY == 10
FLOOD == 20
REPETITIONS == 2

WARN_FREQUENCY == "High frequency of requests in session"
WARN_FLOOD == "Session flood detected (Possible DoS/Brute Force)"
WARN_REPETITION == "Repetitive prompt detected (Possible Brute Force)"

\* A 32-bit integer as its two unsigned 16-bit halves [hi, lo], so that no
\* intermediate value leaves the range of the checker's own integers.
HALF == 65536

\* ((hash << 5) - hash) + char, then hash & hash: 31 * hash + char as a
\* 32-bit integer
HashStep(hash, char) ==
    LET low == 31 * hash.lo + char
        high == 31 * hash.hi + (low \div HALF)
    IN [hi |-> high % HALF, lo |-> low % HALF]

\* the loop of simpleHash over the first n characters
RECURSIVE HashUpTo(_, _)
HashUpTo(str, n) ==
    IF n = 0 THEN [hi |-> 0, lo |-> 0] ELSE HashStep(HashUpTo(str, n - 1), str[n])

\* the hex digits of a natural number, and of one below 65536 on four places
RECURSIVE HexDigits(_)
HexDigits(n) == IF n < 16 THEN << HexDigit(n) >> ELSE Append(HexDigits(n \div 16), HexDigit(n % 16))

HexDigits4(n) == << HexDigit(n \div 4096), HexDigit((n \div 256) % 16),
                    HexDigit((n \div 16) % 16), HexDigit(n % 16) >>

HexOfHalves(hi, lo) == IF hi = 0 THEN HexDigits(lo) ELSE HexDigits(hi) \o HexDigits4(lo)

\* Number.prototype.toString(16) of a signed 32-bit integer: a minus sign
\* and the digits of the magnitude when the top bit is set
ToString16(hash) ==
    IF hash.hi < HALF \div 2 THEN HexOfHalves(hash.hi, hash.lo)
    ELSE IF hash.lo = 0 THEN << 45 >> \o HexOfHalves(HALF - hash.hi, 0)
    ELSE << 45 >> \o HexOfHalves(HALF - 1 - hash.hi, HALF - hash.lo)

simpleHash(str) == ToString16(HashUpTo(str, Len(str)))

\* this.sessionHistory.get(sessionId) || []
HistoryOf(sessionHistory, sessionId) ==
    IF sessionId \in DOMAIN sessionHistory THEN sessionHistory[sessionId] ELSE << >>

\* checkSessionHistory(sessionId, prompt) at the time now, as a function of
\* this.sessionHistory: the Map it leaves and what it returns
checkSessionHistory(sessionHistory, sessionId, prompt, now) ==
    LET hash == simpleHash(prompt)
        history == SelectSeq(HistoryOf(sessionHistory, sessionId),
                             LAMBDA h : now - h.timestamp < FIVE_MINUTES)
        recentRequests == Len(history)
        repetitionCount == Len(SelectSeq(history, LAMBDA h : h.hash = hash))
        frequent == recentRequests > HIGH_FREQUENCY
        flood == recentRequests > FLOOD
        repeated == repetitionCount > REPETITIONS
        pushed == Append(history, [hash |-> hash, timestamp |-> now])
    IN [sessionHistory |->
            [s \in DOMAIN sessionHistory \cup {sessionId} |->
                IF s = sessionId THEN pushed ELSE sessionHistory[s]],
        riskIncrease |-> (IF frequent THEN 20 ELSE 0) + (IF flood THEN 100 ELSE 0)
                            + (IF repeated THEN 30 ELSE 0),
        warnings |-> (IF frequent THEN << WARN_FREQUENCY >> ELSE << >>)
                        \o (IF flood THEN << WARN_FLOOD >> ELSE << >>)
                        \o (IF repeated THEN << WARN_REPETITION >> ELSE << >>)]

\* how many calls are made on a Sentry after those it starts with
MaxSessionCalls == 4

SessionIds == {"user_123_session", "user_456_session"}

Hello == << 72, 101, 108, 108, 111 >>    \* "Hello"
PromptAa == << 65, 97 >>                 \* "Aa"
PromptBB == << 66, 66 >>                 \* "BB"
SessionPrompts == {PromptAa, PromptBB}

\* milliseconds between two calls
SessionGaps == {0, 299999, 300000}

\* how many calls of one session, all with "Hello" and within one
\* millisecond, a Sentry has behind it when the run begins
Backlogs == {0, 10, 20}

\* what a call leaves in the log; early marks the calls of the backlog
SessionOutcome(sessionId, prompt, now, r, early) ==
    [op |-> "checkSessionHistory", sessionId |-> sessionId, prompt |-> prompt, at |-> now,
     riskIncrease |-> r.riskIncrease, warnings |-> r.warnings, early |-> early]

\* the Sentry and the log after n calls checkSessionHistory("user_123_session", "Hello")
RECURSIVE AfterBacklog(_)
AfterBacklog(n) ==
    IF n = 0 THEN [sessionHistory |-> << >>, calls |-> << >>]
    ELSE LET s == AfterBacklog(n - 1)
             r == checkSessionHistory(s.sessionHistory, "user_123_session", Hello, 0)
         IN [sessionHistory |-> r.sessionHistory,
             calls |-> Append(s.calls, SessionOutcome("user_123_session", Hello, 0, r, TRUE))]

InitSession ==
    /\ config = [secret |-> << >>, mode |-> Undefined]
    /\ engine = NoEngine
    /\ doc = << >>
    /\ how = Fresh
    /\ sgn = NoSign
    /\ res = [op |-> "init", threw |-> FALSE]
    /\ tasks = [k \in Tasks |-> IdleTask]
    /\ clock = 0
    /\ breaker = NoBreaker
    /\ flights = [k \in Callers |-> IdleFlight]
    /\ onion = NoOnion
    /\ \E n \in Backlogs :
          /\ sentry = [exists |-> TRUE, max |-> 0, requestHistory |-> << >>,
                       sessionHistory |-> AfterBacklog(n).sessionHistory]
          /\ calls = AfterBacklog(n).calls

\* sentry.checkSessionHistory(sessionId, prompt)
CheckSessionHistory(sessionId, prompt, gap) ==
    /\ sentry.exists
    /\ Cardinality({i \in DOMAIN calls : ~calls[i].early}) < MaxSessionCalls
    /\ clock' = clock + gap
    /\ \E r \in {checkSessionHistory(sentry.sessionHistory, sessionId, prompt, clock + gap)} :
          /\ sentry' = [sentry EXCEPT !.sessionHistory = r.sessionHistory]
          /\ calls' = Append(calls, SessionOutcome(sessionId, prompt, clock + gap, r, FALSE))
    /\ UNCHANGED << config, engine, textVars, tasks, breaker, flights, onion >>

NextSession ==
    \E sessionId \in SessionIds, prompt \in SessionPrompts, gap \in SessionGaps :
        CheckSessionHistory(sessionId, prompt, gap)

SpecSession == InitSession /\ [][NextSession]_vars

(***************************************************************************)
(* OnionAI: the layers securePrompt runs a prompt through.  Prompts are    *)
(* sequences of UTF-16 code units; letters are the ASCII letters.  Risk    *)
(* scores are counted in hundredths.  A threat is its message: the fixed   *)
(* text and the value the template literal puts into it.                   *)
(***************************************************************************)
Threat(text, arg) == [text |-> text, arg |-> arg]

ToLowerCase(s) == [i \in DOMAIN s |-> IF s[i] >= 65 /\ s[i] <= 90 THEN s[i] + 32 ELSE s[i]]
ToUpperCase(s) == [i \in DOMAIN s |-> IF s[i] >= 97 /\ s[i] <= 122 THEN s[i] - 32 ELSE s[i]]

\* String.prototype.includes
Includes(s, sub) == \E i \in 0..(Len(s) - Len(sub)) : SubSeq(s, i + 1, i + Len(sub)) = sub

\* w stands in s at position pos
StartsAt(s, pos, w) == pos + Len(w) - 1 <= Len(s) /\ SubSeq(s, pos, pos + Len(w) - 1) = w

\* \s of a regular expression, which is also what trim removes
IsSpace(c) ==
    \/ c \in {9, 10, 11, 12, 13, 32, 160, 5760, 8232, 8233, 8239, 8287, 12288, 65279}
    \/ c >= 8192 /\ c <= 8202

IsDigit(c) == c >= 48 /\ c <= 57

\* the least position of a set of positions, or none when it is empty
First(rest, none) == IF rest = {} THEN none ELSE CHOOSE i \in rest : \A j \in rest : i <= j

\* where a run of white space, of digits, or of anything but white space
\* that begins at pos ends: the first position the run does not reach
SkipSpaces(s, pos) == First({i \in pos..Len(s) : ~IsSpace(s[i])}, Len(s) + 1)
SkipDigits(s, pos) == First({i \in pos..Len(s) : ~IsDigit(s[i])}, Len(s) + 1)
SkipWord(s, pos) == First({i \in pos..Len(s) : IsSpace(s[i])}, Len(s) + 1)

\* Sanitizer.sanitize under the default inputSanitization, step by step
RemoveZeroWidthChars(s) == SelectSeq(s, LAMBDA c : ~((c >= 8203 /\ c <= 8205) \/ c = 65279))

\* xss.filterXSS on a text that holds no tag: < and > are escaped
filterXSS(s) ==
    Concat([i \in DOMAIN s |-> IF s[i] = 60 THEN << 38, 108, 116, 59 >>
                               ELSE IF s[i] = 62 THEN << 38, 103, 116, 59 >>
                               ELSE << s[i] >>])

Trim(s) ==
    LET kept == {i \in DOMAIN s : ~IsSpace(s[i])}
    IN IF kept = {} THEN << >>
       ELSE SubSeq(s, CHOOSE i \in kept : \A j \in kept : i <= j,
                      CHOOSE i \in kept : \A j \in kept : i >= j)

\* replace(/\n{3,}/g, '\n\n'): a line feed that follows two line feeds goes
CollapseNewlines(s) ==
    Concat([i \in DOMAIN s |-> IF i > 2 /\ s[i] = 10 /\ s[i - 1] = 10 /\ s[i - 2] = 10
                               THEN << >> ELSE << s[i] >>])

sanitize(input) == CollapseNewlines(Trim(filterXSS(RemoveZeroWidthChars(input))))

validate(input) ==
    LET sanitizedValue == sanitize(input)
        threats == IF input # sanitizedValue
                   THEN << Threat("Sanitization modified the input (potential malicious patterns removed)", << >>) >>
                   ELSE << >>
    IN [safe |-> TRUE, threats |-> threats, sanitizedValue |-> sanitizedValue,
        riskScore |-> IF Len(threats) > 0 THEN 10 ELSE 0]

\* Privacy.anonymize with piiProtection.enabled false, as it is in every
\* configuration of this model
anonymize(input) == [safe |-> TRUE, threats |-> << >>, riskScore |-> 0]

\* Guard.normalize: lower case, then everything but a-z and 0-9 removed
normalize(input) ==
    SelectSeq(ToLowerCase(input), LAMBDA c : (c >= 97 /\ c <= 122) \/ IsDigit(c))

\* promptInjectionProtection.blockPhrases as the schema fills it in
blockPhrases ==
    << << 105, 103, 110, 111, 114, 101, 32, 112, 114, 101, 118, 105, 111, 117, 115, 32, 105, 110, 115, 116, 114, 117, 99, 116, 105, 111, 110, 115 >>,
       << 97, 99, 116, 32, 97, 115, 32, 115, 121, 115, 116, 101, 109 >>,
       << 121, 111, 117, 32, 97, 114, 101, 32, 114, 111, 111, 116 >>,
       << 114, 101, 118, 101, 97, 108, 32, 115, 121, 115, 116, 101, 109, 32, 112, 114, 111, 109, 112, 116 >> >>

\* The injection patterns are words with \s+ between them.  An item is the
\* words that may stand at one place; an optional item is a group
\* (word\s+|word\s+)? and takes the white space after it along.
Word(words) == [words |-> words, optional |-> FALSE]
Maybe(words) == [words |-> words, optional |-> TRUE]

injectionPatterns ==
    <<
       [source |-> "/translate\\s+the\\s+above/i", weight |-> 40,
        items |-> << Word({<< 116, 114, 97, 110, 115, 108, 97, 116, 101 >>}),
                     Word({<< 116, 104, 101 >>}),
                     Word({<< 97, 98, 111, 118, 101 >>}) >>],
       [source |-> "/ignore\\s+(all\\s+|those\\s+)?(previous\\s+|safety\\s+)?(instructions|restrictions|rules)/i", weight |-> 90,
        items |-> << Word({<< 105, 103, 110, 111, 114, 101 >>}),
                     Maybe({<< 97, 108, 108 >>, << 116, 104, 111, 115, 101 >>}),
                     Maybe({<< 112, 114, 101, 118, 105, 111, 117, 115 >>, << 115, 97, 102, 101, 116, 121 >>}),
                     Word({<< 105, 110, 115, 116, 114, 117, 99, 116, 105, 111, 110, 115 >>, << 114, 101, 115, 116, 114, 105, 99, 116, 105, 111, 110, 115 >>, << 114, 117, 108, 101, 115 >>}) >>],
       [source |-> "/judge\\s+by\\s+your\\s+rules/i", weight |-> 50,
        items |-> << Word({<< 106, 117, 100, 103, 101 >>}),
                     Word({<< 98, 121 >>}),
                     Word({<< 121, 111, 117, 114 >>}),
                     Word({<< 114, 117, 108, 101, 115 >>}) >>],
       [source |-> "/instead\\s+of/i", weight |-> 30,
        items |-> << Word({<< 105, 110, 115, 116, 101, 97, 100 >>}),
                     Word({<< 111, 102 >>}) >>],
       [source |-> "/system\\s+prompt/i", weight |-> 60,
        items |-> << Word({<< 115, 121, 115, 116, 101, 109 >>}),
                     Word({<< 112, 114, 111, 109, 112, 116 >>}) >>],
       [source |-> "/you\\s+are\\s+(now\\s+)?(a\\s+)?(system|admin|root|developer)/i", weight |-> 80,
        items |-> << Word({<< 121, 111, 117 >>}),
                     Word({<< 97, 114, 101 >>}),
                     Maybe({<< 110, 111, 119 >>}),
                     Maybe({<< 97 >>}),
                     Word({<< 115, 121, 115, 116, 101, 109 >>, << 97, 100, 109, 105, 110 >>, << 114, 111, 111, 116 >>, << 100, 101, 118, 101, 108, 111, 112, 101, 114 >>}) >>],
       [source |-> "/this\\s+is\\s+the\\s+(developer|admin|system)/i", weight |-> 80,
        items |-> << Word({<< 116, 104, 105, 115 >>}),
                     Word({<< 105, 115 >>}),
                     Word({<< 116, 104, 101 >>}),
                     Word({<< 100, 101, 118, 101, 108, 111, 112, 101, 114 >>, << 97, 100, 109, 105, 110 >>, << 115, 121, 115, 116, 101, 109 >>}) >>],
       [source |-> "/break\\s+(previous\\s+)?(rules|instructions)/i", weight |-> 80,
        items |-> << Word({<< 98, 114, 101, 97, 107 >>}),
                     Maybe({<< 112, 114, 101, 118, 105, 111, 117, 115 >>}),
                     Word({<< 114, 117, 108, 101, 115 >>, << 105, 110, 115, 116, 114, 117, 99, 116, 105, 111, 110, 115 >>}) >>],
       [source |-> "/disregard\\s+(all\\s+)?(safety\\s+)?(instructions|rules|protocols)/i", weight |-> 90,
        items |-> << Word({<< 100, 105, 115, 114, 101, 103, 97, 114, 100 >>}),
                     Maybe({<< 97, 108, 108 >>}),
                     Maybe({<< 115, 97, 102, 101, 116, 121 >>}),
                     Word({<< 105, 110, 115, 116, 114, 117, 99, 116, 105, 111, 110, 115 >>, << 114, 117, 108, 101, 115 >>, << 112, 114, 111, 116, 111, 99, 111, 108, 115 >>}) >>],
       [source |-> "/bypass\\s+(restrictions|rules|controls)/i", weight |-> 90,
        items |-> << Word({<< 98, 121, 112, 97, 115, 115 >>}),
                     Word({<< 114, 101, 115, 116, 114, 105, 99, 116, 105, 111, 110, 115 >>, << 114, 117, 108, 101, 115 >>, << 99, 111, 110, 116, 114, 111, 108, 115 >>}) >>],
       [source |-> "/not\\s+bound\\s+by/i", weight |-> 80,
        items |-> << Word({<< 110, 111, 116 >>}),
                     Word({<< 98, 111, 117, 110, 100 >>}),
                     Word({<< 98, 121 >>}) >>],
       [source |-> "/DAN\\s+Mode/i", weight |-> 90,
        items |-> << Word({<< 100, 97, 110 >>}),
                     Word({<< 109, 111, 100, 101 >>}) >>],
       [source |-> "/do\\s+anything\\s+now/i", weight |-> 90,
        items |-> << Word({<< 100, 111 >>}),
                     Word({<< 97, 110, 121, 116, 104, 105, 110, 103 >>}),
                     Word({<< 110, 111, 119 >>}) >>],
       [source |-> "/reveal\\s+(hidden\\s+)?(instructions|rules|system)/i", weight |-> 90,
        items |-> << Word({<< 114, 101, 118, 101, 97, 108 >>}),
                     Maybe({<< 104, 105, 100, 100, 101, 110 >>}),
                     Word({<< 105, 110, 115, 116, 114, 117, 99, 116, 105, 111, 110, 115 >>, << 114, 117, 108, 101, 115 >>, << 115, 121, 115, 116, 101, 109 >>}) >>],
       [source |-> "/disable\\s+(all\\s+)?(safety\\s+)?rules/i", weight |-> 90,
        items |-> << Word({<< 100, 105, 115, 97, 98, 108, 101 >>}),
                     Maybe({<< 97, 108, 108 >>}),
                     Maybe({<< 115, 97, 102, 101, 116, 121 >>}),
                     Word({<< 114, 117, 108, 101, 115 >>}) >>]
    >>

\* the items from the k-th on match the lower-case text s at pos
RECURSIVE MatchFrom(_, _, _, _)
MatchFrom(items, k, s, pos) ==
    IF k > Len(items) THEN TRUE
    ELSE \/ items[k].optional /\ MatchFrom(items, k + 1, s, pos)
         \/ \E w \in items[k].words :
               /\ StartsAt(s, pos, w)
               /\ \/ k = Len(items)
                  \/ /\ k < Len(items)
                     /\ SkipSpaces(s, pos + Len(w)) > pos + Len(w)
                     /\ MatchFrom(items, k + 1, s, SkipSpaces(s, pos + Len(w)))

\* item.pattern.test(input); the patterns carry the flag i
PatternTest(pattern, input) ==
    \E pos \in DOMAIN input : MatchFrom(pattern.items, 1, ToLowerCase(input), pos)

educationalContexts ==
    { << 104, 111, 119, 32, 116, 111, 32, 112, 114, 101, 118, 101, 110, 116 >>,
      << 104, 111, 119, 32, 100, 111, 32, 105, 32, 112, 114, 101, 118, 101, 110, 116 >>,
      << 101, 120, 97, 109, 112, 108, 101, 32, 111, 102 >>,
      << 119, 104, 97, 116, 32, 105, 115, 32, 97 >>,
      << 101, 120, 112, 108, 97, 105, 110, 32, 116, 104, 101, 32, 97, 116, 116, 97, 99, 107 >>,
      << 115, 101, 99, 117, 114, 105, 116, 121, 32, 114, 101, 115, 101, 97, 114, 99, 104 >> }

\* what a loop over phrases, patterns or statements has found: the threats
\* it pushed, in order, and the risk it added
Gather(findings) ==
    [threats |-> Concat([i \in DOMAIN findings |-> findings[i].threats]),
     riskScore |-> Sum([i \in DOMAIN findings |-> findings[i].riskScore])]

Finding(found, threat, weight) ==
    IF found THEN [threats |-> << threat >>, riskScore |-> weight]
    ELSE [threats |-> << >>, riskScore |-> 0]

\* Guard.check, the loop over the block phrases: a phrase found as it stands
\* counts 1.0; one found only after normalizing counts 0.9
CheckPhrase(lowerInput, normalizedInput, phrase) ==
    IF Includes(lowerInput, ToLowerCase(phrase))
    THEN Finding(TRUE, Threat("Blocked phrase detected: ", phrase), 100)
    ELSE Finding(Includes(normalizedInput, normalize(phrase)),
                 Threat("Obfuscated blocked phrase detected: ", phrase), 90)

\* Guard.check, the loop over the injection patterns
CheckPattern(item, input) ==
    Finding(PatternTest(item, input),
            Threat("Potential prompt injection pattern detected: ", item.source), item.weight)

\* Guard.check from the semantic analysis on: raised is what the two loops
\* have found
CheckContext(raised, safeContextFound) ==
    LET reduced == safeContextFound /\ raised.riskScore > 0 /\ raised.riskScore < 150
        threats ==
            raised.threats
            \o (IF reduced
                THEN << Threat("Semantic Context: Detected educational/prevention context. Reducing risk.", << >>) >>
                ELSE << >>)
        riskScore == Min(100, IF reduced THEN Max(0, raised.riskScore - 50) ELSE raised.riskScore)
    IN [safe |-> Len(threats) = 0 \/ (safeContextFound /\ riskScore < 50),
        threats |-> threats,
        riskScore |-> riskScore]

\* Guard.check
check(input) ==
    CheckContext(
        Gather([i \in 1..(Len(blockPhrases) + Len(injectionPatterns)) |->
                   IF i <= Len(blockPhrases)
                   THEN CheckPhrase(ToLowerCase(input), normalize(input), blockPhrases[i])
                   ELSE CheckPattern(injectionPatterns[i - Len(blockPhrases)], input)]),
        \E context \in educationalContexts : Includes(ToLowerCase(input), context))

\* Vault.checkSQL under the default dbProtection: read-only mode and these
\* forbidden statements
forbiddenStatements == << << 73, 78, 83, 69, 82, 84 >>, << 68, 69, 76, 69, 84, 69 >>, << 68, 82, 79, 80 >>, << 65, 76, 84, 69, 82 >> >>

sqlCommands ==
    { << 73, 78, 83, 69, 82, 84 >>, << 85, 80, 68, 65, 84, 69 >>, << 68, 69, 76, 69, 84, 69 >>, << 68, 82, 79, 80 >>, << 65, 76, 84, 69, 82 >>, << 67, 82, 69, 65, 84, 69 >>, << 71, 82, 65, 78, 84 >>,
      << 82, 69, 86, 79, 75, 69 >>, << 84, 82, 85, 78, 67, 65, 84, 69 >>, << 77, 69, 82, 71, 69 >>, << 82, 69, 80, 76, 65, 67, 69 >>, << 85, 112, 115, 101, 114, 116 >> }

\* upperQuery.split(/\s+/)[0]
FirstWord(upperQuery) ==
    SubSeq(upperQuery, 1, SkipWord(upperQuery, 1) - 1)

\* the code unit at a position, -1 past the end
At(s, i) == IF i \in DOMAIN s THEN s[i] ELSE -1

\* /;\s*DROP/i
MarkerDrop(s) == \E pos \in DOMAIN s : s[pos] = 59 /\ StartsAt(s, SkipSpaces(s, pos + 1), << 100, 114, 111, 112 >>)

\* /UNION\s+SELECT/i
MarkerUnion(s) ==
    \E pos \in DOMAIN s : MatchFrom(<< Word({<< 117, 110, 105, 111, 110 >>}), Word({<< 115, 101, 108, 101, 99, 116 >>}) >>, 1, s, pos)

\* /'\s*OR\s*'\d+'\s*=\s*'\d+/i
MarkerTautology(s) ==
    \E pos \in DOMAIN s :
        LET orAt == SkipSpaces(s, pos + 1)
            quote1 == SkipSpaces(s, orAt + 2)
            close1 == SkipDigits(s, quote1 + 1)
            equals == SkipSpaces(s, close1 + 1)
            quote2 == SkipSpaces(s, equals + 1)
        IN /\ s[pos] = 39
           /\ StartsAt(s, orAt, << 111, 114 >>)
           /\ At(s, quote1) = 39
           /\ close1 > quote1 + 1
           /\ At(s, close1) = 39
           /\ At(s, equals) = 61
           /\ At(s, quote2) = 39
           /\ IsDigit(At(s, quote2 + 1))

checkSQL(enabled, query) ==
    IF ~enabled THEN [safe |-> TRUE, threats |-> << >>]
    ELSE
    LET upperQuery == ToUpperCase(query)
        lowerQuery == ToLowerCase(query)
        firstWord == FirstWord(upperQuery)
        marker(found, source) ==
            IF found THEN << Threat("Potential SQL injection marker detected: ", source) >>
            ELSE << >>
        threats ==
            Concat([i \in DOMAIN forbiddenStatements |->
                IF Includes(upperQuery, ToUpperCase(forbiddenStatements[i]))
                THEN << Threat("Forbidden SQL statement detected: ", forbiddenStatements[i]) >>
                ELSE << >>])
            \o (IF firstWord \in sqlCommands
                THEN << Threat("Non-SELECT query detected in read-only mode (starts with ", firstWord) >>
                ELSE << >>)
            \o marker(Includes(query, << 45, 45 >>), "/--/")
            \o marker(Includes(query, << 47, 42 >>), "/\\/\\*/")
            \o marker(MarkerDrop(lowerQuery), "/;\\s*DROP/i")
            \o marker(MarkerUnion(lowerQuery), "/UNION\\s+SELECT/i")
            \o marker(MarkerTautology(lowerQuery), "/'\\s*OR\\s*'\\d+'\\s*=\\s*'\\d+/i")
    IN [safe |-> Len(threats) = 0, threats |-> threats]

\* Sentry.checkTokenCount
checkTokenCount(maxTokensPerPrompt, prompt) ==
    LET estimatedTokens == (Len(prompt) + 3) \div 4
        threats == IF estimatedTokens > maxTokensPerPrompt
                   THEN << Threat("Prompt exceeds max token limit",
                                  Digits(estimatedTokens) \o << 32, 62, 32 >> \o Digits(maxTokensPerPrompt)) >>
                   ELSE << >>
    IN [safe |-> Len(threats) = 0, threats |-> threats, estimatedTokens |-> estimatedTokens,
        riskScore |-> IF Len(threats) > 0 THEN 30 ELSE 0]

\* Number.prototype.toFixed(2) of a count of hundredths
ToFixed2(h) == Digits(h \div 100) \o << 46, 48 + ((h \div 10) % 10), 48 + (h % 10) >>

\* a field of a configuration object, or what stands in for it when the
\* object does not carry it
Field(c, name, default) == IF name \in DOMAIN c THEN c[name] ELSE default

isSimpleConfig(c) ==
    "dbSafe" \in DOMAIN c \/ "enhance" \in DOMAIN c \/ "preventPromptInjection" \in DOMAIN c
        \/ "onWarning" \in DOMAIN c \/ "piiSafe" \in DOMAIN c

\* An intent classifier is the answer it gives to every prompt: intent and
\* confidence in hundredths, or an exception.  NoClassifier stands for a
\* configuration without one.
NoClassifier == [threw |-> FALSE, intent |-> "none", confidence |-> 0]
Classifiers ==
    { [threw |-> FALSE, intent |-> "UNKNOWN", confidence |-> 99],
      [threw |-> FALSE, intent |-> "ROLE_ESCALATION", confidence |-> 76],
      [threw |-> FALSE, intent |-> "ROLE_ESCALATION", confidence |-> 75],
      [threw |-> TRUE, intent |-> "SAFE", confidence |-> 0] }

\* new OnionAI(c): what the constructor keeps.  given is the object the
\* caller passed; simpleConfig is kept for a simple configuration only, and
\* OnionConfigSchema.parse fills in what finalConfig leaves out
OnionOf(c) ==
    LET simple == isSimpleConfig(c)
        rate == IF simple THEN << >> ELSE Field(c, "rateLimitingAndResourceControl", << >>)
    IN [exists |-> TRUE,
        given |-> c,
        simple |-> simple,
        strict |-> simple /\ Field(c, "strict", FALSE),
        dbEnabled |-> IF simple THEN Field(c, "dbSafe", FALSE) ELSE TRUE,
        piiEnabled |-> IF simple THEN Field(c, "piiSafe", FALSE) ELSE FALSE,
        intentClassifier |-> Field(c, "intentClassifier", NoClassifier),
        maxTokensPerPrompt |-> Field(rate, "maxTokensPerPrompt", 1500),
        maxRequestsPerMinute |-> Field(rate, "maxRequestsPerMinute", 20)]


\* OnionAI.securePrompt from the results of the layers on: the threats it
\* collects, the cumulative risk score and what it returns
Cumulate(o, sanitizedPrompt, sanResult, piiResult, guardResult, vaultResult, tokenCheck) ==
    LET classification == o.intentClassifier
        flagged == /\ o.intentClassifier # NoClassifier
                   /\ ~classification.threw
                   /\ classification.intent # "SAFE"
                   /\ classification.intent # "UNKNOWN"
        high == flagged /\ classification.confidence > 75
        moderate == flagged /\ ~high /\ classification.confidence > 50
        risk1 == IF ~sanResult.safe THEN Max(0, 10) ELSE 0
        risk15 == IF ~piiResult.safe THEN Max(risk1, 40) ELSE risk1
        risk2 == Max(risk15, guardResult.riskScore)
        risk21 == IF high THEN Max(risk2, 90) ELSE IF moderate THEN Max(risk2, 60) ELSE risk2
        threats ==
            (IF ~piiResult.safe THEN piiResult.threats ELSE << >>)
            \o (IF ~guardResult.safe THEN guardResult.threats ELSE << >>)
            \o (IF high
                THEN << Threat("Semantic Intent Detected: ",
                               << classification.intent, ToFixed2(classification.confidence) >>) >>
                ELSE IF moderate
                THEN << Threat("Potential Semantic Intent: ", classification.intent) >>
                ELSE << >>)
            \o (IF o.dbEnabled /\ ~vaultResult.safe THEN vaultResult.threats ELSE << >>)
            \o (IF ~tokenCheck.safe THEN tokenCheck.threats ELSE << >>)
    IN [output |-> sanitizedPrompt,
        threats |-> threats,
        safe |-> Len(threats) = 0,
        riskScore |-> IF ~tokenCheck.safe THEN Max(risk21, 20) ELSE risk21,
        estimatedTokens |-> tokenCheck.estimatedTokens]

\* OnionAI.securePrompt once the prompt is sanitized: the layers it is
\* handed to.  The vault is asked when dbProtection is enabled, which is
\* also what checkSQL looks at first.
Layers(o, sanitizedPrompt, sanResult) ==
    Cumulate(o, sanitizedPrompt, sanResult,
             anonymize(sanitizedPrompt),
             check(sanitizedPrompt),
             checkSQL(o.dbEnabled, sanitizedPrompt),
             checkTokenCount(o.maxTokensPerPrompt, sanitizedPrompt))

\* sanResult.sanitizedValue || prompt
OrPrompt(sanResult, prompt) ==
    IF sanResult.sanitizedValue # << >> THEN sanResult.sanitizedValue ELSE prompt

\* OnionAI.securePrompt(prompt) of the instance o
securePrompt(o, prompt) == Layers(o, OrPrompt(validate(prompt), prompt), validate(prompt))

\* protect is called without a session id, or with the empty string: both
\* are falsy
NoSession == ""

\* OnionAI.protect(prompt, sessionId) of the instance o at the time now,
\* from the point where securePrompt has returned result: what it returns
\* and the session history it leaves in the Sentry
protectAfter(o, result, sessionHistory, prompt, sessionId, now) ==
    LET tracked == sessionId # NoSession
        historyRisk == IF tracked THEN checkSessionHistory(sessionHistory, sessionId, prompt, now)
                       ELSE [sessionHistory |-> sessionHistory, riskIncrease |-> 0,
                             warnings |-> << >>]
        raised == historyRisk.riskIncrease > 0
        riskScore == IF raised THEN Min(100, result.riskScore + historyRisk.riskIncrease)
                     ELSE result.riskScore
        block == riskScore > 80
        elevated == ~block /\ riskScore > 60
        threats ==
            result.threats
            \o (IF raised THEN [i \in DOMAIN historyRisk.warnings |->
                                    Threat(historyRisk.warnings[i], << >>)]
                ELSE << >>)
            \o (IF block THEN << Threat("High Risk Detected - AUTO BLOCK", ToFixed2(riskScore)) >>
                ELSE IF elevated /\ o.strict
                THEN << Threat("Strict Mode Block", ToFixed2(riskScore)) >>
                ELSE IF elevated
                THEN << Threat("Warning: Elevated Risk", ToFixed2(riskScore)) >>
                ELSE << >>)
    IN [sessionHistory |-> historyRisk.sessionHistory,
        securePrompt |-> result.output,
        riskScore |-> riskScore,
        threats |-> threats,
        safe |-> ~(block \/ (elevated /\ o.strict)),
        estimatedTokens |-> result.estimatedTokens]

protect(o, sessionHistory, prompt, sessionId, now) ==
    protectAfter(o, securePrompt(o, prompt), sessionHistory, prompt, sessionId, now)

\* how many calls are made on an OnionAI after those it starts with
MaxOnionCalls == 3

\* the configurations an OnionAI is constructed with: none, the rate
\* limiting of the README, a token limit every prompt exceeds, strict alone
\* and with a key of the simple configuration, and the classifiers
OnionConfigs ==
    { << >>,
      [rateLimitingAndResourceControl |-> [maxRequestsPerMinute |-> 2]],
      [rateLimitingAndResourceControl |-> [maxTokensPerPrompt |-> 1]],
      [strict |-> TRUE],
      [strict |-> TRUE, dbSafe |-> TRUE] }
      \cup {[intentClassifier |-> answer] : answer \in Classifiers}

PromptAdmin == << 121, 111, 117, 32, 97, 114, 101, 32, 97, 100, 109, 105, 110 >>                   \* "you are admin"
PromptIgnore == << 73, 103, 110, 111, 114, 101, 32, 32, 112, 114, 101, 118, 105, 111, 117, 115, 32, 105, 110, 115, 116, 114, 117, 99, 116, 105, 111, 110, 115 >>    \* "Ignore  previous instructions"
PromptLesson == << 104, 111, 119, 32, 116, 111, 32, 112, 114, 101, 118, 101, 110, 116, 32, 115, 121, 115, 116, 101, 109, 32, 112, 114, 111, 109, 112, 116 >>    \* "how to prevent system prompt"
PromptSql == << 32, 100, 114, 111, 112, 32, 105, 116, 32, 45, 45, 8203 >>    \* " drop it --" and a zero width space
OnionPrompts == {Hello, PromptAdmin, PromptIgnore, PromptLesson, PromptSql}

OnionSessions == {NoSession, "user_123_session"}
OnionGaps == {0, 300000}

\* securePrompt keeps no state: what it returns for a configuration and a
\* prompt is computed once
Secured == [c \in OnionConfigs |-> [p \in OnionPrompts |-> securePrompt(OnionOf(c), p)]]

\* what a call leaves in the log; early marks the calls of the backlog
OnionOutcome(op, prompt, sessionId, now, r, early) ==
    [op |-> op, prompt |-> prompt, sessionId |-> sessionId, at |-> now, safe |-> r.safe,
     riskScore |-> r.riskScore, threats |-> r.threats, early |-> early]

\* the session history and the log after n calls
\* protect("Hello", "user_123_session") on the instance o
RECURSIVE AfterProtects(_, _)
AfterProtects(o, n) ==
    IF n = 0 THEN [sessionHistory |-> << >>, calls |-> << >>]
    ELSE LET s == AfterProtects(o, n - 1)
             r == protectAfter(o, Secured[o.given][Hello], s.sessionHistory, Hello,
                               "user_123_session", 0)
         IN CASE Len(s.calls) = n - 1 ->     \* the n-th call follows n - 1 calls
                [sessionHistory |-> r.sessionHistory,
                 calls |-> Append(s.calls,
                                  OnionOutcome("protect", Hello, "user_123_session", 0, r, TRUE))]

InitOnion ==
    /\ config = [secret |-> << >>, mode |-> Undefined]
    /\ engine = NoEngine
    /\ doc = << >>
    /\ how = Fresh
    /\ sgn = NoSign
    /\ res = [op |-> "init", threw |-> FALSE]
    /\ tasks = [k \in Tasks |-> IdleTask]
    /\ clock = 0
    /\ breaker = NoBreaker
    /\ flights = [k \in Callers |-> IdleFlight]
    /\ \E c \in OnionConfigs, n \in Backlogs :
          /\ onion = OnionOf(c)
          /\ sentry = [exists |-> TRUE, max |-> OnionOf(c).maxRequestsPerMinute,
                       requestHistory |-> << >>,
                       sessionHistory |-> AfterProtects(OnionOf(c), n).sessionHistory]
          /\ calls = AfterProtects(OnionOf(c), n).calls

OnionCallsLeft == Cardinality({i \in DOMAIN calls : ~calls[i].early}) < MaxOnionCalls

\* onion.securePrompt(prompt)
SecurePrompt(prompt) ==
    /\ onion.exists
    /\ OnionCallsLeft
    /\ calls' = Append(calls, OnionOutcome("securePrompt", prompt, NoSession, clock,
                                           Secured[onion.given][prompt], FALSE))
    /\ UNCHANGED << config, engine, textVars, tasks, sentry, clock, breaker, flights, onion >>

\* onion.protect(prompt, sessionId)
Protect(prompt, sessionId, gap) ==
    /\ onion.exists
    /\ OnionCallsLeft
    /\ clock' = clock + gap
    /\ \E r \in {protectAfter(onion, Secured[onion.given][prompt], sentry.sessionHistory,
                             prompt, sessionId, clock + gap)} :
          /\ sentry' = [sentry EXCEPT !.sessionHistory = r.sessionHistory]
          /\ calls' = Append(calls, OnionOutcome("protect", prompt, sessionId, clock + gap, r, FALSE))
    /\ UNCHANGED << config, engine, textVars, tasks, breaker, flights, onion >>

NextOnion ==
    \/ \E prompt \in OnionPrompts : SecurePrompt(prompt)
    \/ \E prompt \in OnionPrompts, sessionId \in OnionSessions, gap \in OnionGaps :
          Protect(prompt, sessionId, gap)

SpecOnion == InitOnion /\ [][NextOnion]_vars

(***************************************************************************)
(* Properties.                                                             *)
(***************************************************************************)
Stego(mode) == mode = "steganography" \/ mode = "dual"

\* the last step was extract, on the content a sign call in steganography
\* or dual mode returned, unchanged
ExtractedSigned == res.op = "extract" /\ how.kind = "signed" /\ Stego(sgn.mode)

C2_StripReturnsSignedText ==
    (res.op = "strip" /\ how.kind = "signed" /\ Stego(sgn.mode)) =>
        ~res.threw /\ res.value = sgn.input

C2_Witness ==
    /\ res.op = "strip" /\ how.kind = "signed" /\ Stego(sgn.mode)
    /\ sgn.input = TextMarked /\ doc # sgn.input /\ res.value = TextMarked

\* C5: the constructor throws exactly when the secret is missing or shorter
\* than 32 characters; an engine exists exactly when it did not throw, and it
\* holds the secret it was given.
C5_ConstructorChecksSecret ==
    res.op = "new" =>
        /\ res.threw <=> Len(config.secret) < 32
        /\ engine.exists <=> ~res.threw
        /\ engine.exists => engine.secret = config.secret

C5_Witness == res.op = "new" /\ Len(config.secret) = 32 /\ engine.exists /\ ~res.threw

\* C6: extract returns a result for every text and never throws; for a text
\* without marker the result is invalid.
C6_ExtractIsTotal ==
    res.op = "extract" =>
        /\ ~res.threw
        /\ res.value.isValid \in BOOLEAN
        /\ (~res.value.isValid) => res.value.error \in {ErrNoWatermark, ErrCorrupt, ErrDecrypt}
        /\ Positions(doc, HEADER) = {} => ~res.value.isValid

\* extract has met a text whose block is authentic and whose plaintext is no JSON
C6_Witness ==
    /\ res.op = "extract" /\ how.kind = "received"
    /\ doc = << 72 >> \o embedBlock(BlockOf(<< 104, 105 >>))
    /\ engine.secret = SecretA
    /\ ~res.threw /\ ~res.value.isValid /\ res.value.error = ErrDecrypt

\* C8: with the last character of the signed content removed (steganography
\* or dual mode) extract returns an invalid result: the bit run is no longer
\* a multiple of 8, which extract reports as corrupted bits.
C8_DropLastIsCorrupt ==
    (res.op = "extract" /\ how.kind = "dropLast" /\ Stego(sgn.mode)) =>
        ~res.threw /\ ~res.value.isValid /\ res.value.error = ErrCorrupt

C8_Witness ==
    /\ res.op = "extract" /\ how.kind = "dropLast" /\ Stego(sgn.mode)
    /\ Len(doc) = Len(sgn.content) - 1
    /\ ~res.value.isValid

\* C10 as claimed: signed content is invalid under every other secret.
C10_AnyOtherSecretRejected ==
    (ExtractedSigned /\ engine.secret # sgn.secret) => ~res.value.isValid

\* C10, amended: signed content is invalid under every secret whose first 32
\* characters differ from those of the signing secret.
C10_OtherKeyRejected ==
    (ExtractedSigned /\ SubSeq(engine.secret, 1, 32) # SubSeq(sgn.secret, 1, 32)) =>
        ~res.threw /\ ~res.value.isValid

C10_Witness ==
    /\ ExtractedSigned
    /\ sgn.secret = SecretA /\ engine.secret = SecretB
    /\ ~res.value.isValid /\ res.value.error = ErrDecrypt

\* the last step was verifyHMAC with the signature the sign call returned
VerifiedSigned == res.op = "verifyHMAC" /\ res.with = "signature" /\ sgn.hasSig

C4_SignatureCoversFramedContent ==
    (VerifiedSigned /\ sgn.mode = "dual") =>
        /\ ~res.threw
        /\ (res.of = "doc" /\ doc = sgn.content) => res.value
        /\ (res.of = "doc" /\ doc # sgn.content) => ~res.value
        /\ (res.of = "input" /\ sgn.input # sgn.content) => ~res.value

\* C7: verifyHMAC throws for no content and no signature: it returns false
\* for a signature that is no hex or not as long as a real one.
C7_VerifyNeverThrows ==
    res.op = "verifyHMAC" =>
        /\ ~res.threw
        /\ res.with \in DOMAIN BadSignatures => ~res.value

\* C9: with one bit code point of the frame replaced by the other one, or
\* with bit code points appended to the frame, extract returns an invalid
\* result.
C9_FrameTamperDetected ==
    (res.op = "extract" /\ Stego(sgn.mode) /\ how.kind \in {"flipped", "appended"}) =>
        ~res.threw /\ ~res.value.isValid

\* the last step was a sign call that returned
Signed == res.op = "sign" /\ ~res.threw /\ how.kind = "signed"

\* the content at hand is the signed text followed by a marker and bit code
\* points, at least one
Framed ==
    /\ Len(doc) > Len(sgn.input) + 1
    /\ SubSeq(doc, 1, Len(sgn.input)) = sgn.input
    /\ doc[Len(sgn.input) + 1] = HEADER
    /\ \A i \in (Len(sgn.input) + 2)..Len(doc) : doc[i] \in {ZW_ZERO, ZW_ONE}

\* the signature of the last sign call is 64 lower-case hex digits
HexSigned ==
    /\ sgn.hasSig
    /\ Len(sgn.signature) = 64
    /\ \A i \in DOMAIN sgn.signature : sgn.signature[i] \in (48..57) \cup (97..102)

\* C11: sign in mode none returns the content unchanged and no signature; in
\* mode hmac the content unchanged and a signature of 64 hex digits; in mode
\* steganography the content with a frame and no signature; in mode dual a
\* frame and a signature; an engine constructed without a mode acts as dual.
C11_SignDispatchesOnMode ==
    Signed =>
        /\ config.mode = "none" => (doc = sgn.input /\ ~sgn.hasSig)
        /\ config.mode = "hmac" => (doc = sgn.input /\ HexSigned)
        /\ config.mode = "steganography" => (Framed /\ ~sgn.hasSig)
        /\ config.mode = "dual" => (Framed /\ HexSigned)
        /\ config.mode = Undefined => (Framed /\ HexSigned)

C11_Witness ==
    /\ Signed /\ config.mode = Undefined
    /\ sgn.input = TextPlain /\ Framed /\ HexSigned

\* the block the last sign call encrypted, as the model's cipher gives it
SignedBlock ==
    encrypt(sgn.secret, sgn.iv, JsonStringify(WithTimestamp(sgn.payload, sgn.t))).value

\* C12: in steganography and dual mode the signed content is the text that was
\* signed, unmodified, then one marker, then N bit code points, N being 8
\* times the length of the encrypted block string; no marker but the first is
\* in the frame and the result is longer than the text.
C12_ContentThenOneFrame ==
    (Signed /\ Stego(sgn.mode)) =>
        /\ Framed
        /\ Len(doc) - Len(sgn.input) - 1 = 8 * Len(SignedBlock)
        /\ Len(SignedBlock) = 2 * IV_BYTES + 1 + 2 * TAG_BYTES + 1
                                + 2 * Len(JsonStringify(WithTimestamp(sgn.payload, sgn.t)))
        /\ Positions(SubSeq(doc, Len(sgn.input) + 1, Len(doc)), HEADER) = {1}
        /\ Len(doc) > Len(sgn.input)
        /\ doc = sgn.content

C12_Witness ==
    /\ Signed /\ sgn.mode = "steganography" /\ sgn.input = TextMarked
    /\ Framed /\ Len(doc) - Len(sgn.input) - 1 = 8 * Len(SignedBlock)

\* the segment of the text at hand after its last marker
AfterLastMarker == SubSeq(doc, LastIndexOf(doc, HEADER) + 1, Len(doc))

OnlyBits(s) == \A i \in DOMAIN s : s[i] \in {ZW_ZERO, ZW_ONE}

\* C14: strip returns a text without marker unchanged, and a text whose
\* segment after the last marker holds a character other than the two bit
\* code points; when that segment holds bit code points only, strip removes
\* the last marker and all that follows it.
C14_StripRemovesOnlyBitTails ==
    res.op = "strip" =>
        /\ ~res.threw
        /\ Positions(doc, HEADER) = {} => res.value = doc
        /\ (Positions(doc, HEADER) # {} /\ ~OnlyBits(AfterLastMarker)) => res.value = doc
        /\ (Positions(doc, HEADER) # {} /\ OnlyBits(AfterLastMarker)) =>
              res.value = SubSeq(doc, 1, LastIndexOf(doc, HEADER) - 1)

\* strip has met a text that ends with its only marker
C14_Witness ==
    /\ res.op = "strip" /\ how.kind = "received"
    /\ doc = << HEADER >> /\ res.value = << >>

\* C19: extract reports that there is no watermark exactly when the text has
\* no marker; with a marker, a segment after the last marker that holds a
\* character outside the two bit code points, or whose length is no multiple
\* of 8, gives the corrupt result; the third result is given only for a
\* segment that decodeBits turned into a string; decodeBits returns null or
\* a string for every segment.
C19_ExtractClassifiesInOrder ==
    res.op = "extract" =>
        /\ ~res.threw
        /\ Positions(doc, HEADER) = {} <=>
              (~res.value.isValid /\ res.value.error = ErrNoWatermark)
        /\ (Positions(doc, HEADER) # {}
               /\ (~OnlyBits(AfterLastMarker) \/ Len(AfterLastMarker) % 8 # 0)) =>
              (~res.value.isValid /\ res.value.error = ErrCorrupt)
        /\ (~res.value.isValid /\ res.value.error = ErrDecrypt) =>
              /\ Positions(doc, HEADER) # {}
              /\ OnlyBits(AfterLastMarker) /\ Len(AfterLastMarker) % 8 = 0
              /\ decodeBits(AfterLastMarker) # Null
              /\ Len(decodeBits(AfterLastMarker)) = Len(AfterLastMarker) \div 8
        /\ decodeBits(AfterLastMarker) = Null <=> ~OnlyBits(AfterLastMarker)

\* extract has met noise after a marker
C19_Witness ==
    /\ res.op = "extract" /\ how.kind = "received"
    /\ doc = << 72, HEADER, 120, 121 >>
    /\ ~res.value.isValid /\ res.value.error = ErrCorrupt

\* the block in the last frame of a text, and the IV written in it
LastBlock(text) == decodeBits(SubSeq(text, LastIndexOf(text, HEADER) + 1, Len(text)))
FrameIV(text) == FromHex(SubSeq(LastBlock(text), 1, 2 * IV_BYTES))

\* the last step was extract, on a content that was signed more than once
ExtractedResigned ==
    /\ res.op = "extract" /\ how.kind = "resigned"
    /\ Stego(sgn.mode) /\ engine.secret = sgn.secret

\* C13: after a content was signed again, once or more often, each time with
\* a payload of its own, extract returns the payload and the time of the last
\* sign call, and nothing of the earlier ones.
C13_LastSignatureWins ==
    ExtractedResigned =>
        /\ ~res.threw
        /\ res.value.isValid
        /\ "timestamp" \in DOMAIN res.value /\ res.value.timestamp = sgn.t
        /\ HasKey(res.value.payload, KEY_T) /\ Get(res.value.payload, KEY_T) = sgn.t
        /\ Len(res.value.payload) = Len(WithTimestamp(sgn.payload, sgn.t))
        /\ \A i \in DOMAIN sgn.payload :
              sgn.payload[i].k # KEY_T =>
                 \E j \in DOMAIN res.value.payload : res.value.payload[j] = sgn.payload[i]

\* three frames in the text, the payload returned not that of the frame before
C13_Witness ==
    /\ ExtractedResigned /\ how.at = 2
    /\ Cardinality(Positions(doc, HEADER)) >= 4
    /\ res.value.isValid
    /\ extract(sgn.secret, sgn.input).value.isValid
    /\ extract(sgn.secret, sgn.input).value.payload # res.value.payload

\* the last step was a sign call on a content that was signed before
SignedAgain ==
    /\ res.op = "sign" /\ ~res.threw /\ how.kind = "resigned"
    /\ Stego(sgn.mode) /\ LastBlock(sgn.input) # Null

C15_AcceptedKeySigns ==
    (res.op = "sign" /\ engine.exists /\ Len(engine.secret) >= 32) => ~res.threw

\* C16: what happens after the construction, calls of the engine and writes
\* of the caller to the configuration object alike, changes neither the key
\* nor the mode the calls of the engine use.
C16_KeyAndModeFixed ==
    [][(engine.exists /\ res'.op # "new") =>
          (engine'.secret = engine.secret /\ ModeOf(config') = ModeOf(config))]_vars

\* what the call of a task returns when no other call is under way
Alone(call) ==
    CASE call.op = "sign" ->
            sign(engine.secret, ModeOf(config), call.content, call.payload,
                 call.timestamp, call.iv)
      [] call.op = "extract" -> extract(engine.secret, call.content)
      [] call.op = "strip" -> [threw |-> FALSE, value |-> strip(call.content)]
      [] OTHER -> verifyHMAC(engine.secret, call.content, call.signature)

Accepted == {i \in DOMAIN calls : calls[i].safe}

\* the calls before call i that were let through less than a minute before t
AcceptedBefore(i, t) == {j \in Accepted : j < i /\ calls[j].at > t - MINUTE}

\* C20: with maxRequestsPerMinute = N no more than N of the calls made within
\* 60 seconds of each other are let through; a call that finds N calls let
\* through in the minute before it is refused with the threat 'Rate limit
\* exceeded (Max requests per minute)' and leaves no entry in the history; a
\* call that finds fewer is let through, so calls pass again once the calls
\* let through are a minute old.
C20_RateLimitPerMinute ==
    sentry.exists =>
        /\ \A i \in Accepted :
              Cardinality({j \in Accepted : calls[j].at >= calls[i].at
                                            /\ calls[j].at < calls[i].at + MINUTE})
                 <= sentry.max
        /\ \A i \in DOMAIN calls :
              /\ Cardinality(AcceptedBefore(i, calls[i].at)) >= sentry.max =>
                    /\ ~calls[i].safe
                    /\ calls[i].threats = << RATE_LIMIT_THREAT >>
              /\ Cardinality(AcceptedBefore(i, calls[i].at)) < sentry.max => calls[i].safe
        /\ Len(sentry.requestHistory) = Cardinality(AcceptedBefore(Len(calls) + 1, clock))
        /\ \A n \in DOMAIN sentry.requestHistory :
              \E j \in Accepted : calls[j].at = sentry.requestHistory[n].timestamp

\* two calls let through, a third refused within the minute, a fourth let
\* through when the first was a minute old
C20_Witness ==
    /\ sentry.exists /\ sentry.max = 2 /\ Len(calls) >= 4
    /\ calls[1].safe /\ calls[2].safe /\ ~calls[3].safe /\ calls[4].safe
    /\ calls[3].at < calls[1].at + MINUTE
    /\ calls[4].at = calls[1].at + MINUTE
    /\ Len(sentry.requestHistory) = 2

\* the fields of the block in the last frame of the text at hand
BlockFields == Split(LastBlock(doc), COLON)

\* C23: a frame whose block is not three ':'-separated fields, none of them
\* empty, makes extract return an invalid result: a block with fewer fields,
\* with an empty field, or with a field after the third.
C23_MalformedBlockRejected ==
    (/\ res.op = "extract"
     /\ Positions(doc, HEADER) # {} /\ LastBlock(doc) # Null
     /\ \/ Len(BlockFields) # 3
        \/ \E i \in DOMAIN BlockFields : BlockFields[i] = << >>) =>
        ~res.threw /\ ~res.value.isValid

\* bit b (1 the most significant) of the 8-bit code of a character
BitOf(c, b) == (c \div (2 ^ (BYTE_BITS - b))) % 2

\* C24: the frame of a string h over the block alphabet is the marker and 8
\* code points per character, most significant bit first, U+200B for 0 and
\* U+200C for 1; decodeBits of these code points returns h; marker, bit-0
\* and bit-1 code point are three different code points.
C24_BitCodeIsLossless ==
    /\ ZW_ZERO # ZW_ONE /\ ZW_ZERO # HEADER /\ ZW_ONE # HEADER
    /\ ZW_ZERO = 8203 /\ ZW_ONE = 8204
    /\ how.kind = "frame" =>
          /\ Len(doc) = 1 + 8 * Len(sgn.input) /\ doc[1] = HEADER
          /\ \A i \in DOMAIN sgn.input : \A b \in 1..8 :
                doc[1 + 8 * (i - 1) + b] = IF BitOf(sgn.input[i], b) = 1 THEN ZW_ONE ELSE ZW_ZERO
    /\ res.op = "decodeBits" => res.value = sgn.input

\* ":f" went through the bit code and came back
C24_Witness ==
    /\ res.op = "decodeBits" /\ sgn.input = << COLON, 102 >>
    /\ Len(doc) = 17 /\ res.value = << COLON, 102 >>

\* C25: a result of extract is either valid, with a payload, with the
\* timestamp the payload's t (none when the payload has no t) and without
\* error, or invalid, with an error message that is not empty and with
\* neither payload nor timestamp.
C25_ResultHasOneShape ==
    res.op = "extract" =>
        /\ ~res.threw
        /\ res.value.isValid =>
              /\ "payload" \in DOMAIN res.value /\ "error" \notin DOMAIN res.value
              /\ DOMAIN res.value \subseteq {"isValid", "payload", "timestamp"}
              /\ HasKey(res.value.payload, KEY_T) =>
                    /\ "timestamp" \in DOMAIN res.value
                    /\ res.value.timestamp = Get(res.value.payload, KEY_T)
              /\ ~HasKey(res.value.payload, KEY_T) => "timestamp" \notin DOMAIN res.value
        /\ ~res.value.isValid =>
              /\ DOMAIN res.value = {"isValid", "error"}
              /\ res.value.error # ""

\* extract has met an authentic block whose payload has no t
C25_Witness ==
    /\ res.op = "extract" /\ how.kind = "received"
    /\ doc = embedBlock(BlockOf(<< 123, 125 >>))
    /\ res.value.isValid /\ res.value.payload = << >>
    /\ DOMAIN res.value = {"isValid", "payload"}

\* what was written after the frame of the signed content
Appended == SubSeq(doc, Len(sgn.content) + 1, Len(doc))

\* the last step was extract or strip on a signed content with something
\* written after its frame that is not a bit code point
AfterNoise ==
    /\ how.kind = "appended" /\ Stego(sgn.mode)
    /\ ~OnlyBits(Appended)

\* the last step was extract on a signed content with something written
\* before its frame or over its visible text
BeforeFrame == res.op = "extract" /\ how.kind \in {"inserted", "changed"} /\ Stego(sgn.mode)

Origin == IF how.of = 1 THEN sgn.input ELSE sgn.origin

\* C27: strip removes one frame per call.  Of a content signed k times in a
\* row (steganography or dual mode) one strip call returns the content the
\* k-th sign call was given, and k strip calls in a row return the text the
\* first sign call was given; of a text that ends with its last marker strip
\* returns the text without that marker.
C27_StripRemovesOneFrame ==
    /\ (how.kind = "stripped" /\ Stego(sgn.mode)) =>
          /\ res.value = doc
          /\ how.at = how.of - 1 => doc = sgn.input
          /\ how.at = 0 => doc = Origin
          /\ Cardinality(Positions(doc, HEADER))
                = Cardinality(Positions(Origin, HEADER)) + how.at
    /\ (res.op = "strip" /\ how.kind = "received"
           /\ doc # << >> /\ doc[Len(doc)] = HEADER) =>
          res.value = SubSeq(doc, 1, Len(doc) - 1)

\* three sign calls on a text with a marker of its own, then three strip calls
C27_Witness ==
    /\ how.kind = "stripped" /\ how.of = 3 /\ how.at = 0
    /\ doc = TextMarked /\ sgn.origin = TextMarked /\ sgn.input # TextMarked

\* the checkLimit calls that have ended
Checks == {i \in DOMAIN calls : calls[i].op = "checkLimit"}

\* the tokens a call found used in the window it fell into
UsedBefore(c) ==
    IF c.userId \notin DOMAIN c.before THEN 0
    ELSE IF c.at - c.before[c.userId].lastReset > breaker.windowMs THEN 0
    ELSE c.before[c.userId].tokens

RECURSIVE AdmittedUpTo(_, _)
AdmittedUpTo(u, n) ==
    IF n = 0 THEN 0
    ELSE AdmittedUpTo(u, n - 1)
         + (IF calls[n].op = "checkLimit" /\ calls[n].userId = u /\ ~calls[n].threw
            THEN calls[n].estimatedTokens ELSE 0)

Admitted(u) == AdmittedUpTo(u, Len(calls))

\* C28: with calls for one user running at the same time, all in one window,
\* the tokens of the calls that returned without error never add up to more
\* than maxTokens, and once no call is under way the usage stored is their
\* sum.
C28_NoLostUpdate ==
    \A u \in UserIds :
        /\ Admitted(u) <= breaker.maxTokens
        /\ (UnderWay = {} /\ u \in DOMAIN breaker.store) =>
              breaker.store[u].tokens = Admitted(u)

\* the calls of the session of call i, made before it and less than five
\* minutes before it
EarlierInSession(i) ==
    {j \in 1..(i - 1) : /\ calls[j].sessionId = calls[i].sessionId
                        /\ calls[i].at - calls[j].at < FIVE_MINUTES}

Warned(i, w) == \E n \in DOMAIN calls[i].warnings : calls[i].warnings[n] = w

\* C29: the result of a call depends on the earlier calls of its own session
\* within the last five minutes only, each of which left one entry: it warns
\* of repetition exactly when more than 2 of them had the same prompt, of
\* high frequency exactly when they are more than 10, and of a flood exactly
\* when they are more than 20; the history kept for a session is one entry
\* per such call.
C29_SessionWarnings ==
    /\ \A i \in DOMAIN calls :
          calls[i].op = "checkSessionHistory" =>
             /\ Warned(i, WARN_REPETITION) <=>
                   Cardinality({j \in EarlierInSession(i) : calls[j].prompt = calls[i].prompt})
                      > 2
             /\ Warned(i, WARN_FREQUENCY) <=> Cardinality(EarlierInSession(i)) > 10
             /\ Warned(i, WARN_FLOOD) <=> Cardinality(EarlierInSession(i)) > 20
    /\ \A s \in DOMAIN sentry.sessionHistory :
          \E last \in DOMAIN calls :
             /\ calls[last].sessionId = s
             /\ \A j \in (last + 1)..Len(calls) : calls[j].sessionId # s
             /\ Len(sentry.sessionHistory[s]) = Cardinality(EarlierInSession(last)) + 1

\* the log holds three calls and no more, each securePrompt("Hello"), the
\* last within a minute of the first
ThreeHellos ==
    /\ Len(calls) = 3
    /\ \A i \in 1..3 : calls[i].op = "securePrompt" /\ calls[i].prompt = Hello
    /\ calls[3].at - calls[1].at < MINUTE

\* C21: with maxRequestsPerMinute = 2, of three consecutive
\* securePrompt("Hello") calls within one minute the first two are safe and
\* the third returns safe = false with the rate-limit threat in its threats:
\* the request rate limit is enforced through securePrompt.
C21_RateLimitThroughSecurePrompt ==
    (onion.exists /\ onion.maxRequestsPerMinute = 2 /\ ThreeHellos) =>
        /\ calls[1].safe
        /\ calls[2].safe
        /\ ~calls[3].safe
        /\ \E t \in DOMAIN calls[3].threats : calls[3].threats[t].text = RATE_LIMIT_THREAT

ProtectCalls == {i \in DOMAIN calls : calls[i].op = "protect"}

\* the protect calls before the i-th of the log with its session id and
\* less than five minutes before it
EarlierProtects(i) ==
    {j \in ProtectCalls : /\ j < i
                          /\ calls[j].sessionId = calls[i].sessionId
                          /\ calls[i].at - calls[j].at < FIVE_MINUTES}

\* the instance was constructed with strict: true
StrictMode == "strict" \in DOMAIN onion.given /\ onion.given.strict

\* C30: a protect call of a session id that made more than 20 protect calls
\* in the five minutes before it returns safe = false and the risk score
\* 1.0; every protect call returns safe = false when its risk score exceeds
\* 0.8, and in strict mode when it exceeds 0.6; no risk score exceeds 1.0.
C30_ProtectBlocks ==
    \A i \in ProtectCalls :
        /\ (calls[i].sessionId # NoSession /\ Cardinality(EarlierProtects(i)) > FLOOD) =>
              (~calls[i].safe /\ calls[i].riskScore = 100)
        /\ calls[i].riskScore > 80 => ~calls[i].safe
        /\ (StrictMode /\ calls[i].riskScore > 60) => ~calls[i].safe
        /\ calls[i].riskScore <= 100

=============================================================================
